---- MODULE Spec2Model ----
(***************************************************************************)
(* Boundary acquisition and join engine of universal-choropleth-tool.      *)
(*                                                                         *)
(* Acquisition                                                             *)
(*   tools/alice_choropleth.py  resolve_first_available, download_to_temp  *)
(*   tools/prefetch_tiger.py    resolve_first_available, download          *)
(*   tools/convert_cache_to_parquet.py  to_parquet                         *)
(* A process performs a sequence of calls; every reachability probe (HEAD),*)
(* every GET and every backoff sleep of the running call is recorded in    *)
(* the call's event log ev[p].  The cache directory is a shared map from   *)
(* URL basename to file.                                                   *)
(*   Spec       one process, one call after another, all four functions    *)
(*   SpecRace   two processes running download_to_temp concurrently, each  *)
(*              of which may die at any step                               *)
(*   SpecCache  the CLI, prefetch_tiger and the parquet converter on one   *)
(*              cache directory                                            *)
(*                                                                         *)
(* Key-join pipeline                                                       *)
(*   tools/alice_choropleth.py  normalize_state, prepare_*, compute_metrics*)
(*   tools/local_api.py         norm_state, normalize_csv_key, join,       *)
(*                              compute_rates                              *)
(* These are pure functions: the initial state draws the arguments (arg),  *)
(* one step applies a function (fn) and records what it returns (res).     *)
(*   SpecState   state tokens -> (abbreviation, FIPS code)                 *)
(*   SpecColumn  choice of the CSV's join column                           *)
(*   SpecKey     derivation of the join key of a cell                      *)
(*   SpecMerge   left merge of boundary rows and CSV rows                  *)
(*   SpecRates   derived rates of a row                                    *)
(*   SpecRates   derived rates of a row                                    *)
(*   SpecKeyedMerge  ZCTA keys derived from raw cells, then the merge      *)
(*   SpecLoader  the file a loader opens: columnar file or zip archive     *)
(*                                                                         *)
(* Handlers                                                                *)
(*   tools/alice_choropleth.py  main                                       *)
(*   tools/local_api.py         boundaries, join, load_boundary            *)
(*   tools/prefetch_tiger.py    main                                       *)
(* A handler runs its statements in program order; fn names the handler,   *)
(* arg holds its request and res is the frame of the run.                  *)
(*   SpecRun           one run of main, /boundaries or /join               *)
(*   SpecPrefetch      one run of the prefetch tool                        *)
(*   SpecPrefetchFair  the same, main always taking its next step          *)
(*                                                                         *)
(* A definition introduced as "variant" is the definition after it with    *)
(* one plausible slip; a claim that rests on the definition fails under it.*)
(***************************************************************************)
EXTENDS Integers, Sequences, FiniteSets, TLC

\* ------------------------------------------------------------- bounds
NumCands == 2      \* length of the candidate URL list handed to the resolver
MaxN == 3          \* largest retry limit explored (the limit ranges over -1..MaxN)
MaxWait == 2       \* largest base backoff explored, in time units
BodyLen == 2       \* number of write chunks of a response body
MaxCalls == 2      \* calls one process makes in a run
NumFetch == 1      \* the first NumFetch URLs are the ones fetched

Procs == {1, 2}
URLS == 1..(IF NumFetch > NumCands THEN NumFetch ELSE NumCands)
FETCHED == 1..NumFetch
\* zcta_urls(): the ordered candidate list, newest vintage first
zcta_urls == [i \in 1..NumCands |-> i]

VARIABLES
    MAX_RETRIES,   \* retry limit N
    RETRY_WAIT,    \* base backoff B
    OFFLINE,       \* offline flag
    CACHE_DIR,     \* TRUE iff a cache directory is configured
    cache,         \* cache directory: URL basename -> file
    cache0,        \* per process: the cache as it was when the running call began
    pc,            \* per process: position in the running call
    op,            \* per process: the function being run
    url,           \* per process: the url argument (fetch) or the candidate being probed
    cand,          \* per process: index of the candidate being probed
    attempt,       \* per process: loop variable attempt
    ev,            \* per process: HEAD / GET / sleep events of the running call
    tmp,           \* per process: the mkstemp file of the running call
    ret,           \* per process: result of the running call
    calls,         \* per process: number of calls begun
    parquet,       \* parquet directory: URL basename -> TRUE iff its .parquet exists
    fn,            \* key-join pipeline: the function that has been applied ("" before)
    arg,           \* key-join pipeline: the arguments it is applied to
    res            \* key-join pipeline: what it returned or raised

\* the state of the key-join pipeline, which the acquisition engine never touches
joinst == <<fn, arg, res>>
vars == <<MAX_RETRIES, RETRY_WAIT, OFFLINE, CACHE_DIR, cache, cache0, pc, op, url,
          cand, attempt, ev, tmp, ret, calls, parquet, joinst>>
config == <<MAX_RETRIES, RETRY_WAIT, OFFLINE, CACHE_DIR>>

\* ------------------------------------------------------------- files
NoFile == [exists |-> FALSE, len |-> 0]
File(k) == [exists |-> TRUE, len |-> k]
Complete(f) == f.exists /\ f.len = BodyLen

\* ------------------------------------------------------------- results
NoRet == [kind |-> "none", u |-> 0, at |-> "", err |-> ""]
RetUrl(u) == [kind |-> "url", u |-> u, at |-> "", err |-> ""]
RetPath(u, where) == [kind |-> "path", u |-> u, at |-> where, err |-> ""]
Raise(e) == [kind |-> "raise", u |-> 0, at |-> "", err |-> e]

\* ------------------------------------------------------------- events
\* (a HEAD that raised and one that answered without r.ok take the same path: logged alike)
HeadEv(u, a, o) == [k |-> "HEAD", u |-> u, a |-> a, ok |-> o.ok, exc |-> FALSE, st |-> 0, d |-> 0]
GetEv(u, a, o, ok) == [k |-> "GET", u |-> u, a |-> a, ok |-> ok, exc |-> o.exc, st |-> o.st, d |-> 0]
IoErrEv(u, a) == [k |-> "IOERR", u |-> u, a |-> a, ok |-> FALSE, exc |-> TRUE, st |-> 0, d |-> 0]
SleepEv(u, a, d) == [k |-> "sleep", u |-> u, a |-> a, ok |-> FALSE, exc |-> FALSE, st |-> 0, d |-> d]

MoveEv(u, ok) == [k |-> "MOVE", u |-> u, a |-> 0, ok |-> ok, exc |-> ~ok, st |-> 0, d |-> 0]

\* variant: exponent attempt instead of attempt - 1
BackoffOffByOne(a) == RETRY_WAIT * (2 ^ a)
\* time.sleep(RETRY_WAIT * (2 ** (attempt - 1)))
Backoff(a) == RETRY_WAIT * (2 ^ (a - 1))

\* _cache_path_for(url): None without a cache directory, else CACHE_DIR/basename(url)
HasCachePath(u) == CACHE_DIR

\* variant: the cache is consulted in offline mode only
CachedOfflineOnly(u) == OFFLINE /\ HasCachePath(u) /\ cache[u].exists
\* cpath and os.path.exists(cpath)
Cached(u) == HasCachePath(u) /\ cache[u].exists

\* ------------------------------------------------------------- network
\* requests.head: a response with r.ok, a response without, or an exception
HeadOutcomes == {[ok |-> TRUE, exc |-> FALSE], [ok |-> FALSE, exc |-> FALSE],
                 [ok |-> FALSE, exc |-> TRUE]}
\* requests.get: a response with a status code, or an exception (st = 0)
GetOutcomes == {[exc |-> FALSE, st |-> s] : s \in {200, 404, 503}}
                   \cup {[exc |-> TRUE, st |-> 0]}

\* resp.status_code in (429, 500, 502, 503, 504)
Transient(st) == st \in {429, 500, 502, 503, 504}
\* resp.raise_for_status() raises for 4xx and 5xx
RaisesForStatus(st) == st >= 400 /\ st < 600
\* download_to_temp leaves the try block through break
AliceGetOk(o) == ~o.exc /\ ~Transient(o.st) /\ ~RaisesForStatus(o.st)
\* prefetch download: neither "in (429, ...)" nor "!= 200" raised
PrefetchGetOk(o) == ~o.exc /\ ~Transient(o.st) /\ o.st = 200

\* ------------------------------------------------------------- call frame
Idle(p) == pc[p] \in {"idle", "done"}

\* Entering a function: a fresh frame; cache0 remembers the cache at entry.
Begin(p, f, u) ==
    /\ Idle(p)
    /\ calls[p] < MaxCalls
    /\ calls' = [calls EXCEPT ![p] = @ + 1]
    /\ op' = [op EXCEPT ![p] = f]
    /\ url' = [url EXCEPT ![p] = u]
    /\ cache0' = [cache0 EXCEPT ![p] = cache]
    /\ ev' = [ev EXCEPT ![p] = <<>>]
    /\ tmp' = [tmp EXCEPT ![p] = NoFile]
    /\ UNCHANGED <<config, parquet, joinst>>

\* The loop variables of a call that is about to run its loop, or that never does.
Locals(p, c, a) ==
    /\ cand' = [cand EXCEPT ![p] = c]
    /\ attempt' = [attempt EXCEPT ![p] = a]

Finish(p, r) ==
    /\ pc' = [pc EXCEPT ![p] = "done"]
    /\ ret' = [ret EXCEPT ![p] = r]

\* ------------------------------------------------------------- Source Resolver
\* variant: the offline branch is missing
OfflineBranchNever == FALSE
\* variant: the cache is consulted whenever a cache directory is configured
OfflineBranchAnyMode == CACHE_DIR
\* if OFFLINE and CACHE_DIR:
OfflineBranch == OFFLINE /\ CACHE_DIR

\* for u in urls: if cpath and os.path.exists(cpath): return u   (0: none)
FirstCached(urls) ==
    IF \E i \in 1..Len(urls) : Cached(urls[i])
    THEN CHOOSE i \in 1..Len(urls) :
             Cached(urls[i]) /\ \A j \in 1..(i-1) : ~Cached(urls[j])
    ELSE 0

\* if attempt < MAX_RETRIES: time.sleep(...)
SleepsAfter(a) == a < MAX_RETRIES

\* The probing loops of both resolvers: for u in urls: for attempt in range(1, N + 1)
EnterProbing(p, urls) ==
    IF Len(urls) >= 1 /\ MAX_RETRIES >= 1
    THEN /\ pc' = [pc EXCEPT ![p] = "probe"]
         /\ Locals(p, 1, 1)
         /\ ret' = [ret EXCEPT ![p] = NoRet]
    ELSE /\ Finish(p, Raise("NoSourceAvailable"))
         /\ Locals(p, 0, 0)

\* alice_choropleth.resolve_first_available(zcta_urls())
AliceResolveStart(p) ==
    /\ Begin(p, "resolve_first_available", 0)
    /\ IF OfflineBranch
       THEN /\ Finish(p, IF FirstCached(zcta_urls) = 0
                         THEN Raise("OfflineCacheMiss")
                         ELSE RetUrl(zcta_urls[FirstCached(zcta_urls)]))
            /\ Locals(p, 0, 0)
       ELSE EnterProbing(p, zcta_urls)
    /\ UNCHANGED cache

\* prefetch_tiger.resolve_first_available(zcta_urls(), ...): no offline branch
PrefetchResolveStart(p) ==
    /\ Begin(p, "prefetch_resolve_first_available", 0)
    /\ EnterProbing(p, zcta_urls)
    /\ UNCHANGED cache

\* A failed attempt in the log, followed by its backoff sleep when one is taken:
\*   if attempt < MAX_RETRIES: time.sleep(RETRY_WAIT * (2 ** (attempt - 1)))
AfterFailure(p, e) ==
    IF SleepsAfter(attempt[p])
    THEN ev[p] \o <<e, SleepEv(e.u, attempt[p], Backoff(attempt[p]))>>
    ELSE Append(ev[p], e)

\* variant: range(1, MAX_RETRIES)
MoreAttemptsOffByOne(a) == a < MAX_RETRIES - 1
\* range(1, MAX_RETRIES + 1) has a further value after attempt a
MoreAttempts(a) == a < MAX_RETRIES

\* variant: the two loops swapped (every candidate once per attempt)
NextProbeRoundRobin(p, e) ==
    /\ ev' = [ev EXCEPT ![p] = AfterFailure(p, e)]
    /\ IF cand[p] < Len(zcta_urls)
       THEN /\ cand' = [cand EXCEPT ![p] = @ + 1]
            /\ UNCHANGED <<pc, ret, attempt>>
       ELSE IF MoreAttempts(attempt[p])
       THEN /\ cand' = [cand EXCEPT ![p] = 1]
            /\ attempt' = [attempt EXCEPT ![p] = @ + 1]
            /\ UNCHANGED <<pc, ret>>
       ELSE /\ Finish(p, Raise("NoSourceAvailable"))
            /\ UNCHANGED <<cand, attempt>>
\* After a failed probe: the next attempt, the next candidate, or the final raise.
NextProbe(p, e) ==
    /\ ev' = [ev EXCEPT ![p] = AfterFailure(p, e)]
    /\ IF MoreAttempts(attempt[p])
       THEN /\ attempt' = [attempt EXCEPT ![p] = @ + 1]
            /\ UNCHANGED <<pc, ret, cand>>
       ELSE IF cand[p] < Len(zcta_urls)
       THEN /\ cand' = [cand EXCEPT ![p] = @ + 1]
            /\ attempt' = [attempt EXCEPT ![p] = 1]
            /\ UNCHANGED <<pc, ret>>
       ELSE /\ Finish(p, Raise("NoSourceAvailable"))
            /\ UNCHANGED <<cand, attempt>>

\* One iteration of the inner loop: requests.head, then return, sleep or move on.
Probe(p) ==
    /\ pc[p] = "probe"
    /\ \E o \in HeadOutcomes :
         LET e == HeadEv(zcta_urls[cand[p]], attempt[p], o) IN
         IF o.ok
         THEN /\ ev' = [ev EXCEPT ![p] = Append(@, e)]
              /\ Finish(p, RetUrl(zcta_urls[cand[p]]))
              /\ UNCHANGED <<cand, attempt>>
         ELSE NextProbe(p, e)
    /\ UNCHANGED <<config, parquet, joinst, cache, cache0, op, url, tmp, calls>>

\* ------------------------------------------------------------- Fetch & Cache Layer
\* if attempt == MAX_RETRIES: raise
LastAttempt(a) == a = MAX_RETRIES

\* except Exception: the last attempt raises, any other sleeps and goes round again
RetryOrRaise(p, e, again) ==
    IF LastAttempt(attempt[p])
    THEN /\ ev' = [ev EXCEPT ![p] = Append(@, e)]
         /\ Finish(p, Raise("FetchFailed"))
         /\ UNCHANGED attempt
    ELSE /\ ev' = [ev EXCEPT ![p] =
                     @ \o <<e, SleepEv(e.u, attempt[p], Backoff(attempt[p]))>>]
         /\ attempt' = [attempt EXCEPT ![p] = @ + 1]
         /\ pc' = [pc EXCEPT ![p] = again]
         /\ UNCHANGED ret

\* resp is bound: the loop was left through break
HasResp(p) == Len(ev[p]) > 0 /\ ev[p][Len(ev[p])].k = "GET" /\ ev[p][Len(ev[p])].ok

\* download_to_temp(url), lines 150-155: cache hit, offline denial, or into the loop
FetchStart(p, u) ==
    /\ Begin(p, "download_to_temp", u)
    /\ IF Cached(u)
       THEN Finish(p, RetPath(u, "cache")) /\ Locals(p, 0, 0)
       ELSE IF OFFLINE
       THEN Finish(p, Raise("OfflineFetchDenied")) /\ Locals(p, 0, 0)
       ELSE IF MAX_RETRIES >= 1
       THEN /\ pc' = [pc EXCEPT ![p] = "get"]
            /\ ret' = [ret EXCEPT ![p] = NoRet]
            /\ Locals(p, 0, 1)
       ELSE /\ pc' = [pc EXCEPT ![p] = "mkstemp"]
            /\ ret' = [ret EXCEPT ![p] = NoRet]
            /\ Locals(p, 0, 0)
    /\ UNCHANGED cache

\* lines 156-169: one iteration of the retry loop
FetchGet(p) ==
    /\ pc[p] = "get"
    /\ \E o \in GetOutcomes :
         LET e == GetEv(url[p], attempt[p], o, AliceGetOk(o)) IN
         IF AliceGetOk(o)
         THEN /\ ev' = [ev EXCEPT ![p] = Append(@, e)]
              /\ pc' = [pc EXCEPT ![p] = "mkstemp"]
              /\ UNCHANGED <<attempt, ret>>
         ELSE RetryOrRaise(p, e, "get")
    /\ UNCHANGED <<config, parquet, joinst, cache, cache0, op, url, cand, tmp, calls>>

\* lines 170-172: tempfile.mkstemp, then open(path, 'wb')
FetchMkstemp(p) ==
    /\ pc[p] = "mkstemp"
    /\ tmp' = [tmp EXCEPT ![p] = File(0)]
    /\ pc' = [pc EXCEPT ![p] = "write"]
    /\ UNCHANGED <<config, parquet, joinst, cache, cache0, op, url, cand, attempt, ev, ret, calls>>

\* variant: the body is written where the cache file lives, not to the mkstemp file
FetchWriteAtCachePath(p) ==
    /\ pc[p] = "write"
    /\ IF ~HasResp(p)
       THEN /\ Finish(p, Raise("UnboundLocalError"))
            /\ UNCHANGED <<tmp, cache>>
       ELSE \E r \in {"chunk", "ioerror"} :
            IF r = "ioerror"
            THEN /\ Finish(p, Raise("OSError"))
                 /\ UNCHANGED <<tmp, cache>>
            ELSE /\ tmp' = [tmp EXCEPT ![p] = File(@.len + 1)]
                 /\ cache' = IF HasCachePath(url[p])
                              THEN [cache EXCEPT ![url[p]] = File(tmp[p].len + 1)]
                              ELSE cache
                 /\ pc' = [pc EXCEPT ![p] =
                             IF tmp[p].len + 1 = BodyLen THEN "install" ELSE "write"]
                 /\ UNCHANGED ret
    /\ UNCHANGED <<config, parquet, joinst, cache0, op, url, cand, attempt, ev, calls>>
\* line 173: f.write(resp.content) into the mkstemp file, chunk by chunk; resp
\* unbound (the loop never ran) raises
FetchWrite(p) ==
    /\ pc[p] = "write"
    /\ IF ~HasResp(p)
       THEN /\ Finish(p, Raise("UnboundLocalError"))
            /\ UNCHANGED tmp
       ELSE \E r \in {"chunk", "ioerror"} :
            IF r = "ioerror"
            THEN /\ Finish(p, Raise("OSError"))
                 /\ UNCHANGED tmp
            ELSE /\ tmp' = [tmp EXCEPT ![p] = File(@.len + 1)]
                 /\ pc' = [pc EXCEPT ![p] =
                             IF tmp[p].len + 1 = BodyLen THEN "install" ELSE "write"]
                 /\ UNCHANGED ret
    /\ UNCHANGED <<config, parquet, joinst, cache, cache0, op, url, cand, attempt, ev, calls>>

\* variant: no try/except around os.replace
OnMoveFailRaise(p) ==
    /\ Finish(p, Raise("OSError"))
    /\ ev' = [ev EXCEPT ![p] = Append(@, MoveEv(url[p], FALSE))]
    /\ UNCHANGED <<cache, tmp>>
\* except Exception: pass, then return path (lines 179-181)
OnMoveFail(p) ==
    /\ Finish(p, RetPath(url[p], "tmp"))
    /\ ev' = [ev EXCEPT ![p] = Append(@, MoveEv(url[p], FALSE))]
    /\ UNCHANGED <<cache, tmp>>

\* lines 174-181: makedirs, os.replace into the cache, or the temporary path
FetchInstall(p) ==
    /\ pc[p] = "install"
    /\ IF HasCachePath(url[p])
       THEN \E r \in {"moved", "movefail", "mkdirfail"} :
            CASE r = "moved" ->
                   /\ cache' = [cache EXCEPT ![url[p]] = tmp[p]]
                   /\ tmp' = [tmp EXCEPT ![p] = NoFile]
                   /\ ev' = [ev EXCEPT ![p] = Append(@, MoveEv(url[p], TRUE))]
                   /\ Finish(p, RetPath(url[p], "cache"))
              [] r = "movefail" -> OnMoveFail(p)
              [] r = "mkdirfail" ->
                   /\ Finish(p, Raise("OSError"))
                   /\ UNCHANGED <<cache, tmp, ev>>
       ELSE /\ Finish(p, RetPath(url[p], "tmp"))
            /\ UNCHANGED <<cache, tmp, ev>>
    /\ UNCHANGED <<config, parquet, joinst, cache0, op, url, cand, attempt, calls>>

\* ------------------------------------------------------------- prefetch download
\* prefetch_tiger.download(url, dest, ...), lines 21-28
PDownloadStart(p, u) ==
    /\ Begin(p, "download", u)
    /\ IF cache[u].exists
       THEN Finish(p, RetPath(u, "cache")) /\ Locals(p, 0, 0)
       ELSE IF MAX_RETRIES >= 1
       THEN /\ pc' = [pc EXCEPT ![p] = "pget"]
            /\ ret' = [ret EXCEPT ![p] = NoRet]
            /\ Locals(p, 0, 1)
       ELSE Finish(p, RetPath(u, "cache")) /\ Locals(p, 0, 0)
    /\ UNCHANGED cache

\* lines 29-35 and 39-44: GET, status check, open(out, 'wb')
PDownloadGet(p) ==
    /\ pc[p] = "pget"
    /\ \E o \in GetOutcomes :
         LET e == GetEv(url[p], attempt[p], o, PrefetchGetOk(o)) IN
         IF PrefetchGetOk(o)
         THEN /\ ev' = [ev EXCEPT ![p] = Append(@, e)]
              /\ cache' = [cache EXCEPT ![url[p]] = File(0)]
              /\ pc' = [pc EXCEPT ![p] = "pwrite"]
              /\ UNCHANGED <<attempt, ret>>
         ELSE /\ RetryOrRaise(p, e, "pget")
              /\ UNCHANGED cache
    /\ UNCHANGED <<config, parquet, joinst, cache0, op, url, cand, tmp, calls>>

\* lines 36-45: f.write(r.content) at the cache path, chunk by chunk
PDownloadWrite(p) ==
    /\ pc[p] = "pwrite"
    /\ \E r \in {"chunk", "ioerror"} :
         IF r = "ioerror"
         THEN /\ RetryOrRaise(p, IoErrEv(url[p], attempt[p]), "pget")
              /\ UNCHANGED cache
         ELSE /\ cache' = [cache EXCEPT ![url[p]] = File(@.len + 1)]
              /\ IF cache[url[p]].len + 1 = BodyLen
                 THEN Finish(p, RetPath(url[p], "cache"))
                 ELSE UNCHANGED <<pc, ret>>
              /\ UNCHANGED <<ev, attempt>>
    /\ UNCHANGED <<config, parquet, joinst, cache0, op, url, cand, tmp, calls>>

\* ------------------------------------------------------------- specification
\* main(), lines 314-320: the configuration is set once, before any call
Init ==
    /\ MAX_RETRIES \in -1..MaxN
    /\ RETRY_WAIT \in 1..MaxWait
    /\ OFFLINE \in BOOLEAN
    /\ CACHE_DIR \in BOOLEAN
    /\ cache \in [URLS -> {NoFile, File(BodyLen)}]
    /\ cache0 = [p \in Procs |-> cache]
    /\ pc = [p \in Procs |-> "idle"]
    /\ op = [p \in Procs |-> ""]
    /\ url = [p \in Procs |-> 0]
    /\ cand = [p \in Procs |-> 0]
    /\ attempt = [p \in Procs |-> 0]
    /\ ev = [p \in Procs |-> <<>>]
    /\ tmp = [p \in Procs |-> NoFile]
    /\ ret = [p \in Procs |-> NoRet]
    /\ calls = [p \in Procs |-> 0]
    /\ parquet = [u \in URLS |-> FALSE]
    /\ fn = ""
    /\ arg = <<>>
    /\ res = <<>>

\* One process, one call after another.
Main == CHOOSE p \in Procs : \A q \in Procs : p <= q

Next ==
    \/ AliceResolveStart(Main)
    \/ PrefetchResolveStart(Main)
    \/ Probe(Main)
    \/ \E u \in FETCHED : FetchStart(Main, u)
    \/ FetchGet(Main)
    \/ FetchMkstemp(Main)
    \/ FetchWrite(Main)
    \/ FetchInstall(Main)
    \/ \E u \in FETCHED : PDownloadStart(Main, u)
    \/ PDownloadGet(Main)
    \/ PDownloadWrite(Main)

Spec == Init /\ [][Next]_vars

\* ------------------------------------------------------------- concurrent fetches
\* The process dies (kill, power loss) in the middle of a call.
Crash(p) ==
    /\ pc[p] \in {"get", "mkstemp", "write", "install"}
    /\ pc' = [pc EXCEPT ![p] = "crashed"]
    /\ UNCHANGED <<config, parquet, joinst, cache, cache0, op, url, cand, attempt, ev, tmp, ret, calls>>

\* Two online processes sharing one cache directory, each running download_to_temp.
\* The retry limit is 0 or 1 here: retries add nothing to what reaches the disk.
InitRace ==
    /\ Init
    /\ MAX_RETRIES \in {0, 1}
    /\ RETRY_WAIT = 1
    /\ ~OFFLINE

NextRace ==
    \E p \in Procs :
        \/ \E u \in FETCHED : FetchStart(p, u)
        \/ FetchGet(p)
        \/ FetchMkstemp(p)
        \/ FetchWrite(p)
        \/ FetchInstall(p)
        \/ Crash(p)

SpecRace == InitRace /\ [][NextRace]_vars

\* ------------------------------------------------------------- the cache directory as a whole
\* convert_cache_to_parquet.to_parquet(zip_path, out_dir) for a zip that main() found
\* in the cache: an existing parquet is kept; a zip that cannot be read is skipped
ToParquet(u) ==
    /\ cache[u].exists
    /\ parquet' = [parquet EXCEPT ![u] = @ \/ Complete(cache[u])]
    /\ UNCHANGED <<config, joinst, cache, cache0, pc, op, url, cand, attempt, ev, tmp,
                   ret, calls>>

\* One cache directory used by the CLI (download_to_temp, either process), by
\* prefetch_tiger (download, the first process) and by the parquet converter.
InitCache ==
    /\ Init
    /\ MAX_RETRIES \in {1, 2}
    /\ RETRY_WAIT = 1
    /\ ~OFFLINE
    /\ CACHE_DIR

\* A file of the model has a length but no inode: the steps in which os.replace lands
\* on a path that another process holds open for writing are left out.
FetchInstallClosed(p) ==
    /\ \A q \in Procs : pc[q] # "pwrite"
    /\ FetchInstall(p)

NextCache ==
    \/ \E p \in Procs :
        \/ \E u \in FETCHED : FetchStart(p, u)
        \/ FetchGet(p)
        \/ FetchMkstemp(p)
        \/ FetchWrite(p)
        \/ FetchInstallClosed(p)
    \/ \E u \in FETCHED : PDownloadStart(Main, u)
    \/ PDownloadGet(Main)
    \/ PDownloadWrite(Main)
    \/ \E u \in FETCHED : ToParquet(u)

SpecCache == InitCache /\ [][NextCache]_vars

\* ------------------------------------------------------------- reading the event log
IsResolver(p) == op[p] \in {"resolve_first_available", "prefetch_resolve_first_available"}
IsFetch(p) == op[p] \in {"download_to_temp", "download"}
Idx(p) == 1..Len(ev[p])
CandIndex(u) == CHOOSE i \in 1..NumCands : zcta_urls[i] = u
Max0(n) == IF n > 0 THEN n ELSE 0
Heads(p) == {i \in Idx(p) : ev[p][i].k = "HEAD"}
Gets(p) == {i \in Idx(p) : ev[p][i].k = "GET"}
Sleeps(p) == {i \in Idx(p) : ev[p][i].k = "sleep"}
FailedHeads(p, u) == {i \in Heads(p) : ev[p][i].u = u /\ ~ev[p][i].ok}
OkHeads(p, u) == {i \in Heads(p) : ev[p][i].u = u /\ ev[p][i].ok}
FailedAttempt(e) == e.k \in {"HEAD", "GET", "IOERR"} /\ ~e.ok
Failures(p) == {i \in Idx(p) : FailedAttempt(ev[p][i])}
RECURSIVE SleepTotal(_)
SleepTotal(s) == IF s = <<>> THEN 0 ELSE Head(s).d + SleepTotal(Tail(s))
\* the call found its file in the cache directory when it began
HitAtStart(p) == (op[p] = "download" \/ CACHE_DIR) /\ cache0[p][url[p]].exists
ReturnedFile(p) == IF ret[p].at = "cache" THEN cache[url[p]] ELSE tmp[p]

\* ------------------------------------------------------------- claims
\* C1: the resolvers probe candidates strictly in list order: a candidate is probed
\* only after every earlier candidate failed exactly MAX_RETRIES probes, probes never
\* go back to an earlier candidate, and a returned candidate has no earlier candidate
\* with a successful probe; the second candidate is returned only after exactly
\* MAX_RETRIES failed probes of the first.
C1_ProbeOrder ==
    \A p \in Procs : IsResolver(p) =>
        /\ \A i \in Heads(p) : \A c \in 1..(CandIndex(ev[p][i].u) - 1) :
              /\ Cardinality({j \in FailedHeads(p, zcta_urls[c]) : j < i}) = MAX_RETRIES
              /\ OkHeads(p, zcta_urls[c]) = {}
        /\ \A i, j \in Heads(p) : i < j => CandIndex(ev[p][i].u) <= CandIndex(ev[p][j].u)
        /\ ret[p].kind = "url" =>
              \A c \in 1..(CandIndex(ret[p].u) - 1) : OkHeads(p, zcta_urls[c]) = {}
        /\ (ret[p].kind = "url" /\ ev[p] # <<>>) =>
              /\ LET last == ev[p][Len(ev[p])] IN
                    last.k = "HEAD" /\ last.ok /\ last.u = ret[p].u
              /\ \A c \in 1..(CandIndex(ret[p].u) - 1) :
                    Cardinality(FailedHeads(p, zcta_urls[c])) = MAX_RETRIES

C1_Witness ==
    \E p \in Procs :
        /\ IsResolver(p) /\ ret[p].kind = "url" /\ CandIndex(ret[p].u) = 2
        /\ MAX_RETRIES >= 2 /\ Cardinality(FailedHeads(p, zcta_urls[1])) = MAX_RETRIES

\* C2: online, when every probe fails the resolver makes exactly MAX_RETRIES probes of
\* each candidate (none for a limit below 1) and ends with NoSourceAvailable; a URL is
\* returned only after a successful probe of it.
C2_AllProbesFail ==
    \A p \in Procs : (IsResolver(p) /\ (~OFFLINE \/ op[p] = "prefetch_resolve_first_available")) =>
        /\ (pc[p] = "done" /\ \A i \in Heads(p) : ~ev[p][i].ok) =>
              /\ ret[p] = Raise("NoSourceAvailable")
              /\ \A c \in 1..NumCands :
                    Cardinality(FailedHeads(p, zcta_urls[c])) = Max0(MAX_RETRIES)
              /\ Cardinality(Heads(p)) = Max0(MAX_RETRIES) * NumCands
        /\ ret[p].kind = "url" => OkHeads(p, ret[p].u) # {}

C2_Witness ==
    \E p \in Procs :
        /\ IsResolver(p) /\ ~OFFLINE /\ pc[p] = "done"
        /\ ret[p] = Raise("NoSourceAvailable")
        /\ MAX_RETRIES >= 2 /\ Cardinality(Heads(p)) = MAX_RETRIES * NumCands

\* C3: offline with a configured, empty cache directory, resolve_first_available ends
\* with OfflineCacheMiss and download_to_temp with OfflineFetchDenied, and neither
\* makes a network call.
C3_OfflineEmptyCache ==
    \A p \in Procs :
        (OFFLINE /\ CACHE_DIR /\ \A u \in URLS : ~cache0[p][u].exists) =>
            /\ op[p] = "resolve_first_available" =>
                  pc[p] = "done" /\ ev[p] = <<>> /\ ret[p] = Raise("OfflineCacheMiss")
            /\ op[p] = "download_to_temp" =>
                  pc[p] = "done" /\ ev[p] = <<>> /\ ret[p] = Raise("OfflineFetchDenied")

C3_Witness ==
    \E p \in Procs :
        /\ OFFLINE /\ CACHE_DIR /\ \A u \in URLS : ~cache0[p][u].exists
        /\ op[p] = "resolve_first_available" /\ ret[p] = Raise("OfflineCacheMiss")
        /\ MAX_RETRIES >= 1

\* C4: with the offline flag set, whatever the cache directory setting,
\* resolve_first_available makes no probe: it returns the first candidate in list
\* order whose cache file exists and fails with OfflineCacheMiss when none does.
C4_OfflineNeverProbes ==
    \A p \in Procs : (OFFLINE /\ op[p] = "resolve_first_available") =>
        LET hits == {i \in 1..NumCands : CACHE_DIR /\ cache0[p][zcta_urls[i]].exists} IN
        /\ ev[p] = <<>>
        /\ pc[p] = "done"
        /\ ret[p] = IF hits = {} THEN Raise("OfflineCacheMiss")
                    ELSE RetUrl(zcta_urls[CHOOSE i \in hits : \A j \in hits : i <= j])

C4_Witness ==
    \E p \in Procs :
        /\ OFFLINE /\ ~CACHE_DIR /\ op[p] = "resolve_first_available"
        /\ Heads(p) # {}

\* C5: a fetch of a URL whose file exists in the cache directory returns the cache
\* path, makes no network request and leaves the cache as it was, online and offline,
\* in download_to_temp and in prefetch download.
C5_CacheHitIdempotent ==
    \A p \in Procs :
        (IsFetch(p) /\ (op[p] = "download" \/ CACHE_DIR) /\ cache0[p][url[p]].exists) =>
            /\ pc[p] = "done"
            /\ ret[p] = RetPath(url[p], "cache")
            /\ ev[p] = <<>>
            /\ cache = cache0[p]

C5_Witness ==
    \E p \in Procs :
        /\ op[p] = "download_to_temp" /\ ~OFFLINE /\ CACHE_DIR /\ calls[p] = 2
        /\ cache0[p][url[p]].exists /\ ret[p] = RetPath(url[p], "cache")

\* C6: a GET answered with a non-success status outside 429/500/502/503/504 ends the
\* fetch with FetchFailed at once: no further attempt, no backoff sleep.
C6_FatalStatusNotRetried ==
    \A p \in Procs : IsFetch(p) =>
        \A i \in Gets(p) :
            (~ev[p][i].exc /\ ~ev[p][i].ok /\ ev[p][i].st \notin {429, 500, 502, 503, 504}) =>
                /\ i = Len(ev[p])
                /\ pc[p] = "done"
                /\ ret[p] = Raise("FetchFailed")

\* C7: for every retry limit, a fetch makes at most max(N, 0) GETs; one whose attempts
\* all fail ends in a raised error; a path is returned only if the cache file existed
\* at the start or a GET succeeded and its whole body is at the returned path.
C7_BoundedThenRaise ==
    \A p \in Procs : IsFetch(p) =>
        /\ Cardinality(Gets(p)) <= Max0(MAX_RETRIES)
        /\ (pc[p] = "done" /\ ~HitAtStart(p) /\ \A i \in Gets(p) : ~ev[p][i].ok) =>
              ret[p].kind = "raise"
        /\ ret[p].kind = "path" =>
              \/ HitAtStart(p)
              \/ /\ \E i \in Gets(p) : ev[p][i].ok
                 /\ Complete(ReturnedFile(p))

\* C8: a backoff sleep follows exactly the failed attempts k < MAX_RETRIES, lasts
\* RETRY_WAIT * 2^(k-1) and is followed by attempt k+1 of the same URL; no sleep
\* follows attempt MAX_RETRIES, so the resolver goes from the last probe of a candidate
\* straight to the first probe of the next, and a fetch that failed MAX_RETRIES times
\* slept MAX_RETRIES - 1 times, RETRY_WAIT * (2^(MAX_RETRIES-1) - 1) in total.
C8_BackoffSchedule ==
    \A p \in Procs :
        /\ \A i \in Sleeps(p) :
              /\ i > 1
              /\ FailedAttempt(ev[p][i-1])
              /\ ev[p][i-1].a = ev[p][i].a
              /\ ev[p][i].a >= 1 /\ ev[p][i].a < MAX_RETRIES
              /\ ev[p][i].d = RETRY_WAIT * (2 ^ (ev[p][i].a - 1))
              /\ i < Len(ev[p]) =>
                    /\ ev[p][i+1].k \in {"HEAD", "GET"}
                    /\ ev[p][i+1].a = ev[p][i].a + 1
                    /\ ev[p][i+1].u = ev[p][i].u
        /\ \A i \in Failures(p) :
              IF ev[p][i].a < MAX_RETRIES
              THEN i < Len(ev[p]) /\ ev[p][i+1].k = "sleep"
              ELSE i = Len(ev[p]) \/ ev[p][i+1].k # "sleep"
        /\ \A i, j \in Heads(p) :
              (i < j /\ ev[p][i].u # ev[p][j].u /\ \A h \in Heads(p) : ~(i < h /\ h < j)) =>
                  j = i + 1
        /\ (IsFetch(p) /\ MAX_RETRIES >= 1 /\ Cardinality(Failures(p)) = MAX_RETRIES) =>
              /\ Cardinality(Sleeps(p)) = MAX_RETRIES - 1
              /\ SleepTotal(ev[p]) = RETRY_WAIT * (2 ^ (MAX_RETRIES - 1) - 1)

C8_Witness ==
    \E p \in Procs :
        /\ op[p] = "download_to_temp" /\ MAX_RETRIES >= 3
        /\ ret[p] = Raise("FetchFailed")
        /\ Cardinality(Sleeps(p)) = MAX_RETRIES - 1

\* C9: under concurrent download_to_temp calls and crashes at any point, a file at a
\* cache path is always a complete body; a partial file is never visible there.
C9_AtomicInstall ==
    \A u \in URLS : cache[u].exists => Complete(cache[u])

C9_Witness ==
    \E p, q \in Procs :
        /\ p # q /\ url[p] = url[q]
        /\ pc[p] = "crashed" /\ tmp[p].exists /\ ~Complete(tmp[p])
        /\ pc[q] = "done" /\ ret[q] = RetPath(url[q], "cache")
        /\ ~cache0[p][url[p]].exists /\ ~cache0[q][url[q]].exists
        /\ Complete(cache[url[q]])

\* C10: when the move into the cache fails after a successful download,
\* download_to_temp returns the temporary path, which holds the whole body, and the
\* cache is left without an entry for the URL; a fetch of a URL that has no cache
\* entry returns a path only after a successful GET of its own.
C10_MoveFailFallback ==
    \A p \in Procs : op[p] = "download_to_temp" =>
        /\ (ev[p] # <<>> /\ ev[p][Len(ev[p])] = MoveEv(url[p], FALSE)) =>
              /\ pc[p] = "done"
              /\ ret[p] = RetPath(url[p], "tmp")
              /\ Complete(tmp[p])
              /\ ~cache[url[p]].exists
              /\ cache = cache0[p]
        /\ (ret[p].kind = "path" /\ ~HitAtStart(p)) =>
              \E i \in Gets(p) : ev[p][i].ok /\ ev[p][i].u = url[p]

C10_Witness ==
    \E p \in Procs :
        /\ op[p] = "download_to_temp" /\ CACHE_DIR /\ calls[p] = 2
        /\ ev[p] # <<>> /\ ev[p][Len(ev[p])] = MoveEv(url[p], FALSE)
        /\ ret[p] = RetPath(url[p], "tmp")

\* os.replace(path, cpath) of process p has just landed on u
Installs(p, u) == ev'[p] = Append(ev[p], MoveEv(u, TRUE))

\* C11: the cache is append-only: a file that exists at a cache path is never deleted,
\* never truncated or rewritten, and never replaced by another file, whatever the
\* operations (download_to_temp, prefetch download, to_parquet) and their interleaving.
C11_CacheAppendOnly ==
    [][\A u \in URLS : cache[u].exists =>
          /\ cache'[u].exists
          /\ cache'[u].len >= cache[u].len
          /\ \A p \in Procs : ~Installs(p, u)]_vars
\* a path that download_to_temp returned from the cache now holds an empty file
C11_Witness ==
    \E p \in Procs : \E u \in URLS :
        /\ pc[p] = "done" /\ op[p] = "download_to_temp"
        /\ ret[p] = RetPath(u, "cache")
        /\ cache[u] = File(0)

\* ------------------------------------------------------------- key-join pipeline
\* The pure functions of the join side are applied to arguments drawn by the initial
\* state; the acquisition engine stands still meanwhile.
acqvars == <<config, cache, cache0, pc, op, url, cand, attempt, ev, tmp, ret, calls, parquet>>

AcqIdle ==
    /\ MAX_RETRIES = 1 /\ RETRY_WAIT = 1 /\ OFFLINE = FALSE /\ CACHE_DIR = FALSE
    /\ cache = [u \in URLS |-> NoFile]
    /\ cache0 = [p \in Procs |-> cache]
    /\ pc = [p \in Procs |-> "idle"]
    /\ op = [p \in Procs |-> ""]
    /\ url = [p \in Procs |-> 0]
    /\ cand = [p \in Procs |-> 0]
    /\ attempt = [p \in Procs |-> 0]
    /\ ev = [p \in Procs |-> <<>>]
    /\ tmp = [p \in Procs |-> NoFile]
    /\ ret = [p \in Procs |-> NoRet]
    /\ calls = [p \in Procs |-> 0]
    /\ parquet = [u \in URLS |-> FALSE]

\* f is applied, once, to the arguments of the initial state
Apply(f, r) ==
    /\ fn = ""
    /\ fn' = f
    /\ res' = r
    /\ UNCHANGED <<arg, acqvars>>

\* ------------------------------------------------------------- strings
\* A string is a TLA+ string; its i-th character is the one-character string At(s, i).
At(s, i) == SubSeq(s, i, i)
From(s, i) == SubSeq(s, i, Len(s))
Chars(s) == {At(s, i) : i \in 1..Len(s)}
DIGITS == "0123456789"
LOWER == "abcdefghijklmnopqrstuvwxyz"
UPPER == "ABCDEFGHIJKLMNOPQRSTUVWXYZ"
WHITESPACE == {" ", "\t", "\n"}
isdigit(c) == c \in Chars(DIGITS)

UpperChar(c) ==
    IF c \in Chars(LOWER) THEN At(UPPER, CHOOSE i \in 1..Len(LOWER) : At(LOWER, i) = c) ELSE c
LowerChar(c) ==
    IF c \in Chars(UPPER) THEN At(LOWER, CHOOSE i \in 1..Len(UPPER) : At(UPPER, i) = c) ELSE c

\* variant: the token is looked up as typed
upperAsTyped(s) == s
\* str.upper()
RECURSIVE upper(_)
upper(s) == IF s = "" THEN "" ELSE UpperChar(At(s, 1)) \o upper(From(s, 2))

\* str.strip(): leading and trailing whitespace removed
RECURSIVE lstrip(_)
lstrip(s) == IF s # "" /\ At(s, 1) \in WHITESPACE THEN lstrip(From(s, 2)) ELSE s
RECURSIVE rstrip(_)
rstrip(s) ==
    IF s # "" /\ At(s, Len(s)) \in WHITESPACE THEN rstrip(SubSeq(s, 1, Len(s) - 1)) ELSE s
strip(s) == rstrip(lstrip(s))

\* ------------------------------------------------------------- State Identifier Resolver
\* STATE_ABBR_TO_FIPS, in the order of the dict literal (the same in both files)
STATE_ABBR_TO_FIPS == <<
    <<"AL", "01">>, <<"AK", "02">>, <<"AZ", "04">>, <<"AR", "05">>, <<"CA", "06">>, <<"CO", "08">>,
    <<"CT", "09">>, <<"DE", "10">>, <<"DC", "11">>, <<"FL", "12">>, <<"GA", "13">>, <<"HI", "15">>,
    <<"ID", "16">>, <<"IL", "17">>, <<"IN", "18">>, <<"IA", "19">>, <<"KS", "20">>, <<"KY", "21">>,
    <<"LA", "22">>, <<"ME", "23">>, <<"MD", "24">>, <<"MA", "25">>, <<"MI", "26">>, <<"MN", "27">>,
    <<"MS", "28">>, <<"MO", "29">>, <<"MT", "30">>, <<"NE", "31">>, <<"NV", "32">>, <<"NH", "33">>,
    <<"NJ", "34">>, <<"NM", "35">>, <<"NY", "36">>, <<"NC", "37">>, <<"ND", "38">>, <<"OH", "39">>,
    <<"OK", "40">>, <<"OR", "41">>, <<"PA", "42">>, <<"RI", "44">>, <<"SC", "45">>, <<"SD", "46">>,
    <<"TN", "47">>, <<"TX", "48">>, <<"UT", "49">>, <<"VT", "50">>, <<"VA", "51">>, <<"WA", "53">>,
    <<"WV", "54">>, <<"WI", "55">>, <<"WY", "56">>, <<"AS", "60">>, <<"GU", "66">>, <<"MP", "69">>,
    <<"PR", "72">>, <<"VI", "78">>, <<"UM", "74">> >>

Abbrs == {STATE_ABBR_TO_FIPS[i][1] : i \in DOMAIN STATE_ABBR_TO_FIPS}
Codes == {STATE_ABBR_TO_FIPS[i][2] : i \in DOMAIN STATE_ABBR_TO_FIPS}
\* STATE_ABBR_TO_FIPS[a], for a key a
FipsOf(a) ==
    STATE_ABBR_TO_FIPS[CHOOSE i \in DOMAIN STATE_ABBR_TO_FIPS : STATE_ABBR_TO_FIPS[i][1] = a][2]
\* next((k for k, v in STATE_ABBR_TO_FIPS.items() if v == fips), None): the first key
\* in dict order, "" for None
AbbrOf(fips) ==
    IF fips \in Codes
    THEN STATE_ABBR_TO_FIPS[CHOOSE i \in DOMAIN STATE_ABBR_TO_FIPS :
             /\ STATE_ABBR_TO_FIPS[i][2] = fips
             /\ \A j \in 1..(i-1) : STATE_ABBR_TO_FIPS[j][2] # fips][1]
    ELSE ""

\* what a resolver returns: a pair (abbr, fips), or an exception
Pair(a, f) == [kind |-> "pair", abbr |-> a, fips |-> f, err |-> ""]
Fails(e) == [kind |-> "raise", abbr |-> "", fips |-> "", err |-> e]

\* re.fullmatch(r"\d{2}", s), and len(t) == 2 and t.isdigit()
TwoDigits(s) == Len(s) = 2 /\ isdigit(At(s, 1)) /\ isdigit(At(s, 2))

\* variant: the reverse lookup is not tested for None
normalize_stateUnchecked(state) ==
    LET s == strip(state) IN
    IF TwoDigits(s)
    THEN Pair(AbbrOf(s), s)
    ELSE IF upper(s) \in Abbrs
         THEN Pair(upper(s), FipsOf(upper(s)))
         ELSE Fails("ValueError")
\* alice_choropleth.normalize_state(state)
normalize_state(state) ==
    LET s == strip(state) IN
    IF TwoDigits(s)
    THEN IF AbbrOf(s) = "" THEN Fails("ValueError") ELSE Pair(AbbrOf(s), s)
    ELSE IF upper(s) \in Abbrs
         THEN Pair(upper(s), FipsOf(upper(s)))
         ELSE Fails("ValueError")

\* the scope tokens of the serving layer
SCOPES == {"US", "NORTHEAST", "MIDWEST", "SOUTH", "WEST"}

\* local_api.norm_state(token)
norm_state(t0) ==
    LET t == strip(t0) IN
    IF t = "" THEN Fails("HTTP400")
    ELSE IF t \in SCOPES THEN Pair(t, t)
    ELSE IF TwoDigits(t)
         THEN IF AbbrOf(t) = "" THEN Fails("HTTP400") ELSE Pair(AbbrOf(t), t)
    ELSE IF upper(t) \in Abbrs
         THEN Pair(upper(t), FipsOf(upper(t)))
         ELSE Fails("HTTP400")

\* variant: the scope test ignores letter case
join_stateAnyCase(state) ==
    IF upper(state) \in SCOPES THEN Pair(state, state) ELSE norm_state(state)
\* local_api.join, lines 303-307: the state form field of a /join request
join_state(state) ==
    IF state \in SCOPES THEN Pair(state, state) ELSE norm_state(state)

\* every way of writing a two-letter abbreviation in upper and lower case
Casings(a) ==
    {c1 \o c2 : c1 \in {At(a, 1), LowerChar(At(a, 1))}, c2 \in {At(a, 2), LowerChar(At(a, 2))}}
TwoDigitStrings == {At(DIGITS, i) \o At(DIGITS, j) : i, j \in 1..Len(DIGITS)}
\* the state tokens explored
Tokens ==
    UNION {Casings(a) : a \in Abbrs} \cup TwoDigitStrings \cup SCOPES
        \cup {"", " ", " FL", "fl ", " 12 ", "\t06", "us", "West", "FLA", "F", "1", "123",
              "Florida", "1X", "X1", "ZZ", "zz", "F L", "1 2"}

InitState ==
    /\ AcqIdle
    /\ fn = ""
    /\ arg \in [token : Tokens]
    /\ res = <<>>

NormalizeState == Apply("normalize_state", normalize_state(arg.token))
NormState == Apply("norm_state", norm_state(arg.token))
JoinState == Apply("join", join_state(arg.token))

NextState == NormalizeState \/ NormState \/ JoinState

SpecState == InitState /\ [][NextState]_vars

\* ------------------------------------------------------------- claims on the State Identifier Resolver
TableSet == {STATE_ABBR_TO_FIPS[i] : i \in DOMAIN STATE_ABBR_TO_FIPS}
Injective ==
    \A i, j \in DOMAIN STATE_ABBR_TO_FIPS :
        STATE_ABBR_TO_FIPS[i][2] = STATE_ABBR_TO_FIPS[j][2] => i = j

\* C12: state round trip: for every abbreviation A of the table, written in any letter
\* case, normalize_state and norm_state return (A, F) with F the table's code of A, and
\* applied to F they return (A, F) again; the table maps no two abbreviations to one code.
C12_StateRoundTrip ==
    /\ Injective
    /\ \A a \in Abbrs : arg.token \in Casings(a) =>
          /\ fn = "normalize_state" =>
                /\ res = Pair(a, FipsOf(a))
                /\ normalize_state(res.fips) = res
          /\ fn = "norm_state" =>
                /\ res = Pair(a, FipsOf(a))
                /\ norm_state(res.fips) = res
C12_Witness ==
    /\ fn = "norm_state"
    /\ arg.token = "fL"
    /\ res = Pair("FL", "12")
    /\ norm_state("12") = res

\* what C13 calls a token that names a state: two digits that are a code of the table,
\* or a string whose upper-cased form is an abbreviation of the table
NamesState(t) == (TwoDigits(t) /\ t \in Codes) \/ (~TwoDigits(t) /\ upper(t) \in Abbrs)

\* C13 as stated: normalize_state succeeds exactly when the token itself is a two-digit
\* code of the table or upper-cases to an abbreviation of the table, and fails with
\* UnknownState (ValueError) otherwise, leaving the engine's state alone.
C13_SucceedsExactlyWhen ==
    fn = "normalize_state" =>
        /\ res.kind = "pair" <=> NamesState(arg.token)
        /\ res.kind # "pair" => res = Fails("ValueError")
        /\ AcqIdle
\* C13: normalize_state succeeds exactly when the token, with leading and trailing
\* whitespace removed, is a two-digit code of the table or upper-cases to an abbreviation
\* of the table; every other token (the empty one, 03, US and the region names) fails
\* with UnknownState (ValueError); the engine's state is left alone.
C13_SucceedsExactlyWhenStripped ==
    fn = "normalize_state" =>
        /\ res.kind = "pair" <=> NamesState(strip(arg.token))
        /\ res.kind # "pair" => res = Fails("ValueError")
        /\ arg.token \in SCOPES \cup {"", "03"} => res = Fails("ValueError")
        /\ AcqIdle
C13_Witness ==
    /\ fn = "normalize_state"
    /\ arg.token = " FL"
    /\ res = Pair("FL", "12")

\* C14 as stated: every pair returned by normalize_state, norm_state and the /join
\* handler is an entry of the reference table, and the table has exactly 56 entries.
C14_StateIdentity56 ==
    /\ fn \in {"normalize_state", "norm_state", "join"} /\ res.kind = "pair" =>
          <<res.abbr, res.fips>> \in TableSet
    /\ Len(STATE_ABBR_TO_FIPS) = 56
\* C14: every pair returned by normalize_state is an entry of the reference table;
\* every pair returned by norm_state and the /join handler is an entry of the table or
\* (t, t) for a scope token t; the table has exactly 57 entries.
C14_StateIdentity ==
    /\ fn = "normalize_state" /\ res.kind = "pair" => <<res.abbr, res.fips>> \in TableSet
    /\ fn \in {"norm_state", "join"} /\ res.kind = "pair" =>
          \/ <<res.abbr, res.fips>> \in TableSet
          \/ res.abbr \in SCOPES /\ res.fips = res.abbr
    /\ Len(STATE_ABBR_TO_FIPS) = 57
    /\ Cardinality(Abbrs) = 57
C14_Witness ==
    /\ fn = "join"
    /\ arg.token = "US"
    /\ res = Pair("US", "US")

\* ------------------------------------------------------------- Key Normalizer: the join column
MaxCols == 3       \* largest number of columns of an uploaded CSV

Range(q) == {q[i] : i \in DOMAIN q}
\* sequences of distinct elements of S, up to n long
RECURSIVE DistinctSeqs(_, _)
DistinctSeqs(S, n) ==
    IF n = 0 THEN {<<>>}
    ELSE LET shorter == DistinctSeqs(S, n - 1) IN
         shorter \cup UNION {{Append(q, c) : c \in S \ Range(q)} :
                                q \in {r \in shorter : Len(r) = n - 1}}

\* normalize_csv_key: the dict defaults, and defaults.get(level, ['GEOID'])
defaults(level) ==
    CASE level = "state" ->
             <<"STATEFP", "statefp", "STATE", "state", "STUSPS", "stusps", "GEOID", "FIPS">>
      [] level = "county" -> <<"GEOID", "FIPS", "FIPS5", "COUNTYFP", "CountyFIPS">>
      [] level = "place" -> <<"GEOID", "PlaceGEOID">>
      [] level = "subcounty" -> <<"GEOID">>
      [] level = "tract" -> <<"GEOID">>
      [] level = "bg" -> <<"GEOID">>
      [] level = "zcta" -> <<"ZIP", "Zip", "zip", "ZCTA", "ZCTA5", "GEOID">>
      [] OTHER -> <<"GEOID">>

\* if provided: candidates = [provided]  else the defaults ("" stands for None and
\* for an empty form field, both falsy)
Candidates(level, provided) == IF provided # "" THEN <<provided>> ELSE defaults(level)

\* variant: the first CSV column that is a candidate
FirstInCsvOrder(cands, columns) ==
    IF \E i \in DOMAIN columns : columns[i] \in Range(cands)
    THEN columns[CHOOSE i \in DOMAIN columns :
             /\ columns[i] \in Range(cands)
             /\ \A j \in 1..(i-1) : columns[j] \notin Range(cands)]
    ELSE ""
\* next((c for c in candidates if c in df.columns), None), "" for None
RECURSIVE FirstPresent(_, _)
FirstPresent(cands, columns) ==
    IF cands = <<>> THEN ""
    ELSE IF Head(cands) \in Range(columns) THEN Head(cands)
    ELSE FirstPresent(Tail(cands), columns)

\* the column chosen, or the exception raised for want of one
Col(c) == [kind |-> "col", name |-> c, err |-> ""]
NoCol(e) == [kind |-> "raise", name |-> "", err |-> e]

\* local_api.normalize_csv_key, lines 196-212
csv_key_column(level, columns, provided) ==
    LET key == FirstPresent(Candidates(level, provided), columns) IN
    IF key = "" THEN NoCol("HTTP400") ELSE Col(key)

\* alice_choropleth.prepare_zcta, lines 231-237
ZIP_CANDS == <<"ZIP", "Zip", "zip", "ZCTA", "ZCTA5">>
zip_col(columns) ==
    LET c == FirstPresent(ZIP_CANDS, columns) IN
    IF c = "" THEN NoCol("ValueError") ELSE Col(c)

LEVELS == {"state", "county", "place", "subcounty", "tract", "bg", "zcta"}
\* column names of the CSVs explored, and the join_col values of the requests
ColumnNames == {"GEOID", "FIPS", "ZIP", "zip", "STATEFP", "Name"}
Provided == {"", "GEOID", "Name", "Tract_ID"}

InitColumn ==
    /\ AcqIdle
    /\ fn = ""
    /\ arg \in [level : LEVELS \cup {"region"}, provided : Provided,
                columns : DistinctSeqs(ColumnNames, MaxCols)]
    /\ res = <<>>

NormalizeCsvKeyColumn ==
    Apply("normalize_csv_key", csv_key_column(arg.level, arg.columns, arg.provided))
\* the CLI takes no join column from the caller
PrepareZctaColumn ==
    /\ arg.level = "zcta" /\ arg.provided = ""
    /\ Apply("prepare_zcta", zip_col(arg.columns))

NextColumn == NormalizeCsvKeyColumn \/ PrepareZctaColumn

SpecColumn == InitColumn /\ [][NextColumn]_vars

\* the declarative reading of "first present candidate": c is a candidate present in
\* the column set and no candidate before it in the list is present
IsFirstPresent(c, cands, colset) ==
    \E i \in DOMAIN cands :
        /\ cands[i] = c
        /\ c \in colset
        /\ \A j \in 1..(i-1) : cands[j] \notin colset

\* the candidate list that a finished selection worked from
CandsUsed ==
    IF fn = "prepare_zcta" THEN ZIP_CANDS ELSE Candidates(arg.level, arg.provided)

\* C15: the join column is a function of (level, provided column, set of CSV columns):
\* it is the first name of the candidate list present in the CSV, whatever the order of
\* the CSV's columns; the selection fails (MissingJoinColumn) exactly when no candidate
\* is present, and with a provided column exactly when that column is absent.
C15_JoinColumnSelection ==
    fn \in {"normalize_csv_key", "prepare_zcta"} =>
        /\ res.kind = "col" => IsFirstPresent(res.name, CandsUsed, Range(arg.columns))
        /\ res.kind # "col" <=> Range(CandsUsed) \cap Range(arg.columns) = {}
        /\ fn = "normalize_csv_key" /\ arg.provided # "" =>
              /\ res.kind = "col" <=> arg.provided \in Range(arg.columns)
              /\ res.kind = "col" => res.name = arg.provided
        /\ \A q \in DistinctSeqs(ColumnNames, MaxCols) :
              Range(q) = Range(arg.columns) =>
                  IF fn = "prepare_zcta" THEN zip_col(q) = res
                  ELSE csv_key_column(arg.level, q, arg.provided) = res
C15_Witness ==
    /\ fn = "normalize_csv_key"
    /\ arg.level = "county" /\ arg.provided = ""
    /\ arg.columns = <<"Name", "FIPS", "GEOID">>
    /\ res = Col("GEOID")

\* ------------------------------------------------------------- Key Normalizer: the derived key
MaxRaw == 3        \* longest raw identifier text built from the alphabet RawChars

\* the null of a pandas string column (never the text of a cell)
NaN == "<NaN>"

\* A cell of the identifier column as pandas.read_csv holds it: the column's dtype and
\* the text of the cell in the file ("" for an empty cell).
Cell(dt, t) == [dtype |-> dt, text |-> t]

\* str(int(text)): a decimal literal loses its leading zeros
RECURSIVE IntStr(_)
IntStr(t) == IF Len(t) > 1 /\ At(t, 1) = "0" THEN IntStr(From(t, 2)) ELSE t

\* Series.astype(str)
astype_str(c) ==
    IF c.text = "" THEN "nan"
    ELSE CASE c.dtype = "int64" -> IntStr(c.text)
           [] c.dtype = "float64" -> IntStr(c.text) \o ".0"
           [] OTHER -> c.text

\* the longest prefix of s made of digits
RECURSIVE DigitRun(_)
DigitRun(s) ==
    IF s # "" /\ isdigit(At(s, 1)) THEN At(s, 1) \o DigitRun(From(s, 2)) ELSE ""

\* Series.str.extract(r'(\d+)')[0]: the first run of digits, NaN without one
RECURSIVE extract(_)
extract(s) ==
    IF s = "" THEN NaN
    ELSE IF isdigit(At(s, 1)) THEN DigitRun(s)
    ELSE extract(From(s, 2))

RECURSIVE Zeros(_)
Zeros(n) == IF n <= 0 THEN "" ELSE "0" \o Zeros(n - 1)

\* Series.str.zfill(w): zeros on the left up to w characters; a longer string and NaN
\* are left as they are
zfill(s, w) ==
    IF s = NaN \/ Len(s) >= w THEN s
    ELSE Zeros(w - Len(s)) \o s

\* variant: the null is kept
fillnaKept(s) == s
\* Series.fillna('')
fillna(s) == IF s = NaN THEN "" ELSE s

\* the zfill widths of normalize_csv_key, lines 214-220 (0: no such level)
WIDTH(level) ==
    CASE level = "state" -> 2
      [] level = "county" -> 5
      [] level = "place" -> 7
      [] level = "subcounty" -> 10
      [] level = "tract" -> 11
      [] level = "bg" -> 12
      [] level = "zcta" -> 5
      [] OTHER -> 0

\* local_api.normalize_csv_key, lines 213-221: the column _J
csv_J(level, c) ==
    IF level \in LEVELS
    THEN fillna(zfill(extract(astype_str(c)), WIDTH(level)))
    ELSE astype_str(c)

\* alice_choropleth.prepare_place, line 203, and prepare_cousub, line 216
place_GEOID(c) == zfill(astype_str(c), 7)
cousub_GEOID(c) == zfill(astype_str(c), 10)
\* alice_choropleth.prepare_zcta, line 238: the column _ZCTA5 of the CSV
zcta_ZCTA5(c) == zfill(extract(astype_str(c)), 5)

\* local_api.join, lines 317-319: the column _J of the geometry table
gdf_J(level, g) == IF level = "zcta" THEN zfill(astype_str(g), 5) ELSE astype_str(g)
\* alice_choropleth.prepare_zcta, line 241: the column _ZCTA5 of the geometry table
gdf_ZCTA5(g) == zfill(astype_str(g), 5)

\* raw identifier texts: every string of up to MaxRaw characters of RawChars, and some
\* longer ones
RawChars == {"0", "7", "-", "F"}
RECURSIVE Strings(_, _)
Strings(S, n) ==
    IF n = 0 THEN {""}
    ELSE LET shorter == Strings(S, n - 1) IN
         shorter \cup {t \o c : t \in {r \in shorter : Len(r) = n - 1}, c \in S}
LongTexts ==
    {"FL-012345", "012345", "1234567", "12-345", "12345-6789", "123456", "32003",
     "1208600", "12086", "1208612345", "12086001234", "120860012341", "1234567890123",
     "ZIP 32003", "n/a"}
RawTexts == Strings(RawChars, MaxRaw) \cup LongTexts
AllDigits(t) == t # "" /\ \A i \in 1..Len(t) : isdigit(At(t, i))

\* read_csv infers int64 for a column of integer literals, float64 when some of its
\* cells are empty, object otherwise
Cells ==
    {Cell("object", t) : t \in RawTexts}
        \cup {Cell("int64", t) : t \in {r \in RawTexts : AllDigits(r)}}
        \cup {Cell("float64", t) : t \in {r \in RawTexts : AllDigits(r) \/ r = ""}}
\* the identifier column of a boundary file: strings of exactly the level's width
GeoCells(level) ==
    {Cell("object", t) : t \in {r \in RawTexts : AllDigits(r) /\ Len(r) = WIDTH(level)}}

\* what a key derivation returns
Key(k) == [kind |-> "key", key |-> k]

InitKey ==
    /\ AcqIdle
    /\ fn = ""
    /\ arg \in [level : LEVELS, cell : Cells]
    /\ res = <<>>

NormalizeCsvKey == Apply("normalize_csv_key", Key(csv_J(arg.level, arg.cell)))
PreparePlaceKey == arg.level = "place" /\ Apply("prepare_place", Key(place_GEOID(arg.cell)))
PrepareCousubKey ==
    arg.level = "subcounty" /\ Apply("prepare_cousub", Key(cousub_GEOID(arg.cell)))
PrepareZctaKey == arg.level = "zcta" /\ Apply("prepare_zcta", Key(zcta_ZCTA5(arg.cell)))
JoinGeometryKey ==
    /\ arg.cell \in GeoCells(arg.level)
    /\ Apply("join.gdf", Key(gdf_J(arg.level, arg.cell)))
PrepareZctaGeometryKey ==
    /\ arg.level = "zcta" /\ arg.cell \in GeoCells(arg.level)
    /\ Apply("prepare_zcta.gdf", Key(gdf_ZCTA5(arg.cell)))

NextKey ==
    \/ NormalizeCsvKey
    \/ PreparePlaceKey
    \/ PrepareCousubKey
    \/ PrepareZctaKey
    \/ JoinGeometryKey
    \/ PrepareZctaGeometryKey

SpecKey == InitKey /\ [][NextKey]_vars

\* the reading of C16: the digits of the raw text, zero-padded on the left to width w
RECURSIVE DigitsOf(_)
DigitsOf(t) ==
    IF t = "" THEN ""
    ELSE (IF isdigit(At(t, 1)) THEN At(t, 1) ELSE "") \o DigitsOf(From(t, 2))
Padded(t, w) == Zeros(w - Len(DigitsOf(t))) \o DigitsOf(t)
CsvSide == fn \in {"normalize_csv_key", "prepare_place", "prepare_cousub", "prepare_zcta"}

\* C16: for every level and every raw identifier with a digit in it, the derived key is
\* the raw text with all non-digit characters removed, zero-padded on the left to the
\* level's width (FL-012345 at width 7 gives 0012345), in normalize_csv_key and in
\* prepare_place, prepare_cousub and prepare_zcta.
C16_DigitsOnlyPadded ==
    CsvSide /\ DigitsOf(arg.cell.text) # "" =>
        res.key = Padded(arg.cell.text, WIDTH(arg.level))
\* prepare_place keeps the prefix of FL-012345
C16_Witness ==
    /\ fn = "prepare_place"
    /\ arg.cell = Cell("object", "FL-012345")
    /\ res.key = "FL-012345"

\* C17: every non-empty derived key, of the CSV and of the geometry table, is a string
\* of exactly W digits, W the level's width (state 2, county 5, zcta 5, place 7,
\* county subdivision 10, tract 11, block group 12), also when the raw value's digit
\* run is longer than W.
C17_KeyHasLevelWidth ==
    fn \in {"normalize_csv_key", "join.gdf", "prepare_zcta", "prepare_zcta.gdf"}
            /\ res.key \notin {"", NaN} =>
        /\ Len(res.key) = WIDTH(arg.level)
        /\ AllDigits(res.key)
\* a six-digit ZIP value keeps its six digits
C17_Witness ==
    /\ fn = "normalize_csv_key"
    /\ arg.level = "zcta"
    /\ arg.cell = Cell("object", "123456")
    /\ res.key = "123456"

\* C18 as stated: a CSV identifier without a digit gets the empty string as its key
\* (no error), and no geometry key equals it.
C18_NoDigitEmptyKey ==
    fn \in {"normalize_csv_key", "prepare_zcta"} /\ DigitsOf(astype_str(arg.cell)) = "" =>
        /\ res = Key("")
        /\ \A g \in GeoCells(arg.level) :
              res.key \notin {gdf_J(arg.level, g), gdf_ZCTA5(g)}
\* C18: a CSV identifier without a digit gets the empty string as its key in
\* normalize_csv_key and the null key in prepare_zcta; neither raises, and no geometry
\* key equals either, so the row is matched to no geometry row.
C18_NoDigitNoMatch ==
    DigitsOf(astype_str(arg.cell)) = "" =>
        /\ fn = "normalize_csv_key" =>
              /\ res = Key("")
              /\ \A g \in GeoCells(arg.level) : gdf_J(arg.level, g) # res.key
        /\ fn = "prepare_zcta" =>
              /\ res = Key(NaN)
              /\ \A g \in GeoCells(arg.level) : gdf_ZCTA5(g) # res.key
C18_Witness ==
    /\ fn = "prepare_zcta"
    /\ arg.cell = Cell("object", "n/a")
    /\ res = Key(NaN)
    /\ GeoCells(arg.level) # {}

\* ------------------------------------------------------------- Join Engine: the merge
MaxGeo == 3        \* most rows of a boundary table
MaxCsv == 2        \* most rows of a CSV

\* A boundary row: its derived key, and whether it lies in the requested state.
\* A CSV row: its derived key and one attribute.
GeoRows == [key : {"00001", "00002", "00003"}, instate : BOOLEAN]
CsvRows == [key : {"00001", "00002", "99999", ""}, attr : {"100", "250"}]

\* sequences of up to n elements of S
RECURSIVE Tables(_, _)
Tables(S, n) ==
    IF n = 0 THEN {<<>>}
    ELSE LET shorter == Tables(S, n - 1) IN
         shorter \cup {Append(q, x) : q \in {r \in shorter : Len(r) = n - 1}, x \in S}
\* boundary tables: no two rows with one identifier
GeoTables ==
    {g \in Tables(GeoRows, MaxGeo) : \A i, j \in DOMAIN g : g[i].key = g[j].key => i = j}

\* an output row: the boundary row gid, its key, and the attribute of CSV row number
\* row (row = 0 and a null attribute when no CSV row matched)
Out(i, k, j, a) == [gid |-> i, key |-> k, row |-> j, attr |-> a]

\* variant: only the first CSV row whose key equals k
RECURSIVE MatchesFirst(_, _, _, _)
MatchesFirst(i, k, df, j) ==
    IF j > Len(df) THEN <<>>
    ELSE IF df[j].key = k THEN <<Out(i, k, j, df[j].attr)>>
    ELSE MatchesFirst(i, k, df, j + 1)
\* the CSV rows, in order, whose key equals k, as output rows of boundary row i
RECURSIVE Matches(_, _, _, _)
Matches(i, k, df, j) ==
    IF j > Len(df) THEN <<>>
    ELSE (IF df[j].key = k THEN <<Out(i, k, j, df[j].attr)>> ELSE <<>>)
             \o Matches(i, k, df, j + 1)

\* variant: how='inner'
RECURSIVE merge_inner(_, _, _)
merge_inner(gdf, df, i) ==
    IF i > Len(gdf) THEN <<>>
    ELSE Matches(i, gdf[i].key, df, 1) \o merge_inner(gdf, df, i + 1)
\* gdf.merge(df, how='left', ...) from boundary row i on: the boundary rows in order,
\* each with its matching CSV rows, or once with nulls
RECURSIVE merge_left(_, _, _)
merge_left(gdf, df, i) ==
    IF i > Len(gdf) THEN <<>>
    ELSE (IF Matches(i, gdf[i].key, df, 1) = <<>>
          THEN <<Out(i, gdf[i].key, 0, NaN)>>
          ELSE Matches(i, gdf[i].key, df, 1))
             \o merge_left(gdf, df, i + 1)

\* rows of the boundary table inside the state (gdf['STATEFP'] == state_fips, or the
\* centroid test), with their row numbers kept
InState(gdf) == {i \in DOMAIN gdf : gdf[i].instate}
\* a merge over the rows of keep only
RECURSIVE Restrict(_, _)
Restrict(out, keep) ==
    IF out = <<>> THEN <<>>
    ELSE (IF Head(out).gid \in keep THEN <<Head(out)>> ELSE <<>>) \o Restrict(Tail(out), keep)

InitMerge ==
    /\ AcqIdle
    /\ fn = ""
    /\ arg \in [gdf : GeoTables, df : Tables(CsvRows, MaxCsv)]
    /\ res = <<>>

\* local_api.join: load_boundary scopes the table, then line 320 merges
JoinMerge == Apply("join", Restrict(merge_left(arg.gdf, arg.df, 1), InState(arg.gdf)))
\* prepare_place: line 198 scopes the table, line 205 merges
PreparePlaceMerge ==
    Apply("prepare_place", Restrict(merge_left(arg.gdf, arg.df, 1), InState(arg.gdf)))
\* prepare_cousub: the boundary file is the state's own; line 217 merges
PrepareCousubMerge ==
    /\ InState(arg.gdf) = DOMAIN arg.gdf
    /\ Apply("prepare_cousub", merge_left(arg.gdf, arg.df, 1))
\* prepare_zcta: line 243 merges, lines 247-255 scope the result unless the overlay
\* raises
PrepareZctaMerge ==
    \E overlay \in {"done", "raised"} :
        Apply("prepare_zcta",
              IF overlay = "done"
              THEN Restrict(merge_left(arg.gdf, arg.df, 1), InState(arg.gdf))
              ELSE merge_left(arg.gdf, arg.df, 1))

NextMerge == JoinMerge \/ PreparePlaceMerge \/ PrepareCousubMerge \/ PrepareZctaMerge

SpecMerge == InitMerge /\ [][NextMerge]_vars

Merging == fn \in {"join", "prepare_place", "prepare_cousub", "prepare_zcta"}
Unmatched(i) == \A j \in DOMAIN arg.df : arg.df[j].key # arg.gdf[i].key

\* C19: the merge is a left join on the geometry: every row of the state-scoped
\* boundary table is in the result; a boundary row whose key equals no CSV key is there
\* with a null CSV attribute; and no row of the result comes from a CSV row whose key
\* equals no boundary key.
C19_LeftJoin ==
    Merging =>
        /\ \A i \in InState(arg.gdf) : \E n \in DOMAIN res : res[n].gid = i
        /\ \A i \in InState(arg.gdf) : Unmatched(i) =>
              \A n \in DOMAIN res : res[n].gid = i => res[n].attr = NaN /\ res[n].row = 0
        /\ \A n \in DOMAIN res : res[n].row # 0 =>
              /\ arg.df[res[n].row].key = arg.gdf[res[n].gid].key
              /\ res[n].attr = arg.df[res[n].row].attr
        /\ \A j \in DOMAIN arg.df :
              (\A i \in DOMAIN arg.gdf : arg.gdf[i].key # arg.df[j].key) =>
                  \A n \in DOMAIN res : res[n].row # j
\* three boundary rows, attributes for one of them and for a key of no boundary row:
\* three output rows, two of them with nulls
C19_Witness ==
    /\ fn = "join"
    /\ Len(arg.gdf) = 3 /\ InState(arg.gdf) = 1..3
    /\ arg.df = <<[key |-> "00002", attr |-> "100"], [key |-> "99999", attr |-> "250"]>>
    /\ Len(res) = 3
    /\ Cardinality({n \in DOMAIN res : res[n].attr = NaN}) = 2

\* ------------------------------------------------------------- Join Engine: derived rates
MaxCount == 3      \* household counts explored: -1..MaxCount, and 10, 20 and 100

\* A float64: a ratio n/d of integers (d > 0), an infinity, or NaN (the null).
Num(n) == [kind |-> "num", n |-> n, d |-> 1]
NaNf == [kind |-> "nan", n |-> 0, d |-> 1]
Inf(sgn) == [kind |-> "inf", n |-> sgn, d |-> 1]

Abs(n) == IF n < 0 THEN -n ELSE n
RECURSIVE GCD(_, _)
GCD(a, b) == IF b = 0 THEN a ELSE GCD(b, a % b)
Sign(n) == IF n < 0 THEN -1 ELSE 1
\* the ratio n/d in lowest terms, d # 0
Ratio(n, d) ==
    LET g == GCD(Abs(n), Abs(d)) IN
    [kind |-> "num", n |-> (Sign(d) * n) \div g, d |-> Abs(d) \div g]

\* float64 + float64 (both operands are counts here)
add(a, b) == IF a.kind = "nan" \/ b.kind = "nan" THEN NaNf ELSE Num(a.n + b.n)
\* float64 / float64 of pandas: x/0 is an infinity, 0/0 and anything with NaN is NaN;
\* nothing is raised
truediv(a, b) ==
    IF a.kind = "nan" \/ b.kind = "nan" THEN NaNf
    ELSE IF b.n = 0 THEN (IF a.n = 0 THEN NaNf ELSE Inf(Sign(a.n)))
    ELSE Ratio(a.n, b.n)

\* variant: hh >= 0
gt0OrZero(hh) == hh.kind = "num" /\ hh.n >= 0
\* hh > 0, False for NaN
gt0(hh) == hh.kind = "num" /\ hh.n > 0
\* Series.where(cond): the value where cond holds, NaN elsewhere
where(v, cond) == IF cond THEN v ELSE NaNf

needed == {"Households", "Poverty Households", "ALICE Households"}

\* the three rate columns of a row, or the row as it was
Rates(b, p, a) == [kind |-> "rates", Below_ALICE_Rate |-> b, Poverty_Rate |-> p, ALICE_Rate |-> a]
NoRates == [kind |-> "none", Below_ALICE_Rate |-> NaNf, Poverty_Rate |-> NaNf, ALICE_Rate |-> NaNf]

\* compute_metrics (alice_choropleth.py 261-272) and compute_rates (local_api.py
\* 225-232), row by row; the two bodies are the same
compute_rates(columns, row) ==
    IF needed \subseteq columns
    THEN LET hh == row.hh
             below == add(row.pov, row.alice)
         IN  Rates(where(truediv(below, hh), gt0(hh)),
                   where(truediv(row.pov, hh), gt0(hh)),
                   where(truediv(row.alice, hh), gt0(hh)))
    ELSE NoRates

Counts == (-1..MaxCount) \cup {10, 20, 100}
\* a cell of a count column after astype(float): a count, or NaN for an absent value
Floats == {Num(n) : n \in Counts} \cup {NaNf}

InitRates ==
    /\ AcqIdle
    /\ fn = ""
    /\ arg \in [columns : SUBSET needed, row : [hh : Floats, pov : Floats, alice : Floats]]
    /\ res = <<>>

ComputeMetrics == Apply("compute_metrics", compute_rates(arg.columns, arg.row))
ComputeRates == Apply("compute_rates", compute_rates(arg.columns, arg.row))

NextRates == ComputeMetrics \/ ComputeRates

SpecRates == InitRates /\ [][NextRates]_vars

\* rate r is x / hh for counts x and hh, hh > 0: a ratio with r.n * hh = x * r.d
IsQuotient(r, x, hh) ==
    IF x.kind = "nan" THEN r = NaNf
    ELSE r.kind = "num" /\ r.d > 0 /\ r.n * hh.n = x.n * r.d

\* C20: with the columns Households, Poverty Households and ALICE Households all
\* present, a row with Households > 0 gets Poverty_Rate = Poverty/Households,
\* ALICE_Rate = ALICE/Households and Below_ALICE_Rate = (Poverty + ALICE)/Households
\* (100, 10, 20 give 0.10, 0.20, 0.30); a row whose Households is zero, negative or
\* absent gets null for all three, and nothing is raised.
C20_Rates ==
    fn \in {"compute_metrics", "compute_rates"} /\ needed \subseteq arg.columns =>
        /\ res.kind = "rates"
        /\ arg.row.hh.kind = "num" /\ arg.row.hh.n > 0 =>
              /\ IsQuotient(res.Poverty_Rate, arg.row.pov, arg.row.hh)
              /\ IsQuotient(res.ALICE_Rate, arg.row.alice, arg.row.hh)
              /\ IsQuotient(res.Below_ALICE_Rate, add(arg.row.pov, arg.row.alice), arg.row.hh)
        /\ arg.row.hh = NaNf \/ (arg.row.hh.kind = "num" /\ arg.row.hh.n <= 0) =>
              res = Rates(NaNf, NaNf, NaNf)
        /\ arg.row = [hh |-> Num(100), pov |-> Num(10), alice |-> Num(20)] =>
              res = Rates([kind |-> "num", n |-> 3, d |-> 10],
                          [kind |-> "num", n |-> 1, d |-> 10],
                          [kind |-> "num", n |-> 1, d |-> 5])
\* a row without households but with households in poverty: nulls, not infinities
C20_Witness ==
    /\ fn = "compute_rates"
    /\ needed \subseteq arg.columns
    /\ arg.row = [hh |-> Num(0), pov |-> Num(10), alice |-> Num(20)]
    /\ res = Rates(NaNf, NaNf, NaNf)

\* ------------------------------------------------------------- the handlers, step by step
\* One run of a handler: the CLI's main, or the serving layer's /boundaries or /join.
\* fn names the handler, arg holds its request, and res is the frame of the run: the
\* steps still to run, the side effects so far, the working table (its boundary rows,
\* their geometries, its column names), the failures swallowed, and the outcome.
MaxRows == 2       \* rows of the boundary archive a run reads

HANDLERS == {"main", "boundaries", "join"}
\* argparse choices of --level; the serving layer takes the level as free text
CHOICES == {"place", "subcounty", "zcta"}
RunLevels == CHOICES \cup {"parcel"}
RunTokens == {"FL", "zz", "US"}
CsvNames == {"GEOID", "ZIP", "_notes", "_J"}
\* --simplify / the simplify form field: absent, zero, or a tolerance
Tolerances == {"None", "0.0", "0.0005"}
ROWS == 1..MaxRows

\* the errors of the taxonomy, and those raised outside it
FATAL == {"UnknownState", "MissingJoinColumn", "NoSourceAvailable", "OfflineCacheMiss",
          "FetchFailed", "OfflineFetchDenied"}

\* resolve_first_available as a step: it probes or (offline) looks into the cache,
\* and returns a URL or raises
ResolveOutcomes ==
    {[err |-> "", fx |-> <<"probe">>], [err |-> "", fx |-> <<>>],
     [err |-> "NoSourceAvailable", fx |-> <<"probe">>],
     [err |-> "OfflineCacheMiss", fx |-> <<>>]}
\* download_to_temp as a step: a cache hit, a download installed in the cache or left
\* in a temporary file, or an exception
FetchOutcomes ==
    {[err |-> "", fx |-> <<>>], [err |-> "", fx |-> <<"download", "cachewrite">>],
     [err |-> "", fx |-> <<"download">>], [err |-> "FetchFailed", fx |-> <<"download">>],
     [err |-> "OfflineFetchDenied", fx |-> <<>>]}

\* variant: the CLI fetches the boundary archive before it looks at the state token
stepsFetchFirst(h, level) ==
    IF h = "main"
    THEN (IF level = "zcta" THEN <<"resolve_first_available">> ELSE <<>>)
             \o <<"read_geodata_from_zip", "normalize_state", "merge">>
             \o (IF level = "zcta" THEN <<"overlay">> ELSE <<>>)
             \o <<"finish", "to_file">>
    ELSE IF h = "join"
    THEN <<"norm_state", "load_boundary", "merge", "finish", "respond">>
    ELSE <<"norm_state", "load_boundary", "respond">>
\* the statements of a handler in program order: main lines 311-351, boundaries lines
\* 295-297, join lines 303-326
steps(h, level) ==
    IF h = "main"
    THEN <<"normalize_state">>
             \o (IF level = "zcta" THEN <<"resolve_first_available">> ELSE <<>>)
             \o <<"read_geodata_from_zip", "merge">>
             \o (IF level = "zcta" THEN <<"overlay">> ELSE <<>>)
             \o <<"finish", "to_file">>
    ELSE IF h = "join"
    THEN <<"norm_state", "load_boundary", "merge", "finish", "respond">>
    ELSE <<"norm_state", "load_boundary", "respond">>

NoOutput == [rows |-> {}, geom |-> [i \in ROWS |-> "poly"], cols |-> {}]

InitRun ==
    /\ AcqIdle
    /\ fn \in HANDLERS
    /\ arg \in [state : RunTokens, level : RunLevels, columns : SUBSET CsvNames,
                counts : BOOLEAN, simplify : Tolerances, instate : SUBSET ROWS]
    /\ fn = "main" => arg.level \in CHOICES
    /\ fn = "boundaries" => arg.columns = {} /\ ~arg.counts /\ arg.simplify = "None"
    /\ res = [todo |-> steps(fn, arg.level), effects |-> <<>>, rows |-> {},
              geom |-> [i \in ROWS |-> "poly"], cols |-> {}, swallowed |-> {},
              err |-> "", emitted |-> FALSE, out |-> NoOutput]

\* the handler fn is about to run statement s
Running(h, s) == fn = h /\ res.todo # <<>> /\ Head(res.todo) = s
\* the frame r after the statement, and after an exception that nothing catches
Step(r) == res' = [r EXCEPT !.todo = Tail(res.todo)] /\ UNCHANGED <<fn, arg, acqvars>>
Abort(r, e) == res' = [r EXCEPT !.todo = <<>>, !.err = e] /\ UNCHANGED <<fn, arg, acqvars>>

\* the columns of the CSV of the request: counts stands for the three household columns
CsvColumns == arg.columns \cup (IF arg.counts THEN needed ELSE {})
\* the columns of a boundary archive
BoundaryColumns(level) ==
    IF level = "zcta" THEN {"GEOID20", "ZCTA5CE20", "geometry"}
    ELSE {"GEOID", "STATEFP", "geometry"}
\* left.merge(right, on=...): the key columns once, a name on both sides twice with the
\* suffixes _x and _y
merge_columns(left, right, on) ==
    LET both == (left \cap right) \ on IN
    (left \ both) \cup (right \ both) \cup {c \o "_x" : c \in both}
        \cup {c \o "_y" : c \in both}
\* c.startswith('_')
startswith_(c) == c # "" /\ At(c, 1) = "_"
\* some name of the candidate list is a column
HasAny(cands, columns) == \E i \in DOMAIN cands : cands[i] \in columns

\* the three rate columns, added when the three household columns are there
with_rates(cols) ==
    IF needed \subseteq cols
    THEN cols \cup {"Below_ALICE_Rate", "Poverty_Rate", "ALICE_Rate"} ELSE cols

\* variant: only an absent tolerance skips the simplification
truthyNotNone(simp) == simp # "None"
\* if simp: None and 0.0 are falsy
truthy(simp) == simp \notin {"None", "0.0"}

\* gdf.geometry.simplify(...) inside try / except: pass; o is what the call did
simplify(r, simp, o) ==
    IF truthy(simp) /\ "geometry" \in r.cols
    THEN IF o = "done"
         THEN [r EXCEPT !.geom = [i \in ROWS |-> "simplified"]]
         ELSE [r EXCEPT !.swallowed = @ \cup {"simplify"}]
    ELSE r

\* what is written or returned
Emit(r, how) ==
    [r EXCEPT !.effects = Append(@, how), !.emitted = TRUE,
              !.out = [rows |-> r.rows, geom |-> r.geom, cols |-> r.cols]]

\* ---- alice_choropleth.main
\* line 312
MainNormalizeState ==
    /\ Running("main", "normalize_state")
    /\ IF normalize_state(arg.state).kind = "raise"
       THEN Abort(res, "UnknownState") ELSE Step(res)

\* prepare_zcta, line 222
MainResolve ==
    /\ Running("main", "resolve_first_available")
    /\ \E o \in ResolveOutcomes :
          LET r == [res EXCEPT !.effects = @ \o o.fx] IN
          IF o.err # "" THEN Abort(r, o.err) ELSE Step(r)

\* prepare_place lines 196-198, prepare_cousub line 211, prepare_zcta line 223: the
\* national place archive is cut to the state, the county subdivisions come in the
\* state's own archive, the ZCTAs stay national
MainFetch ==
    /\ Running("main", "read_geodata_from_zip")
    /\ \E o \in FetchOutcomes :
          LET r == [res EXCEPT !.effects = @ \o o.fx] IN
          IF o.err # "" THEN Abort(r, o.err)
          ELSE Step([r EXCEPT !.rows = IF arg.level = "place" THEN arg.instate ELSE ROWS,
                              !.cols = BoundaryColumns(arg.level)])

\* prepare_place lines 200-206, prepare_cousub lines 212-217, prepare_zcta lines 230-244
MainMerge ==
    /\ Running("main", "merge")
    /\ IF arg.level = "zcta"
       THEN IF ~HasAny(ZIP_CANDS, CsvColumns) THEN Abort(res, "MissingJoinColumn")
            ELSE Step([res EXCEPT !.cols = merge_columns(@ \cup {"_ZCTA5"},
                                               CsvColumns \cup {"_ZCTA5"}, {"_ZCTA5"})])
       ELSE IF "GEOID" \notin CsvColumns THEN Abort(res, "MissingJoinColumn")
            ELSE Step([res EXCEPT !.cols = merge_columns(@, CsvColumns, {"GEOID"})])

\* prepare_zcta lines 248-256: the state archive is fetched and the centroids are tested
\* inside try / except: pass
MainOverlay ==
    /\ Running("main", "overlay")
    /\ \E f \in FetchOutcomes, o \in {"done", "raised"} :
          LET r == [res EXCEPT !.effects = @ \o f.fx] IN
          IF f.err = "" /\ o = "done"
          THEN Step([r EXCEPT !.rows = @ \cap arg.instate])
          ELSE Step([r EXCEPT !.swallowed = @ \cup {"overlay"}])

\* main lines 343-345
drop_cols(cols) == {c \in cols : ~startswith_(c)}
\* join line 325
drop_J(cols) == {c \in cols : c # "_J"}

\* main lines 330-345: the rates, the simplification, the column drop
MainFinish ==
    /\ Running("main", "finish")
    /\ \E o \in {"done", "raised"} :
          LET r == simplify([res EXCEPT !.cols = with_rates(@)], arg.simplify, o) IN
          Step([r EXCEPT !.cols = drop_cols(@)])

\* main lines 348-351
MainWrite == Running("main", "to_file") /\ Step(Emit(res, "write"))

\* ---- local_api.boundaries and local_api.join
\* boundaries line 295, join lines 303-307
NormStateStep(h) ==
    /\ Running(h, "norm_state")
    /\ LET s == IF h = "join" THEN join_state(arg.state) ELSE norm_state(arg.state) IN
       IF s.kind = "raise" THEN Abort(res, "UnknownState") ELSE Step(res)

\* load_boundary, lines 73-184: the archive is read from the cache directory; place rows
\* are cut to the scope by STATEFP, ZCTA rows by the centroid test against the state
\* archive, with no try around either read or around .values[0]
LoadBoundary(h) ==
    /\ Running(h, "load_boundary")
    /\ IF arg.level \notin LEVELS THEN Abort(res, "HTTP400")
       ELSE \E read \in {"read", "raised"}, overlay \in {"done", "raised"} :
               IF read = "raised" THEN Abort(res, "ReadFailed")
               ELSE IF arg.level = "zcta" /\ arg.state # "US" /\ overlay = "raised"
                    THEN Abort(res, "SpatialFilterFailed")
               ELSE Step([res EXCEPT
                             !.rows = IF arg.level = "subcounty" \/ arg.state = "US"
                                      THEN ROWS ELSE arg.instate,
                             !.cols = BoundaryColumns(arg.level)])

\* join lines 310-320
JoinNormalizeAndMerge ==
    /\ Running("join", "merge")
    /\ IF ~HasAny(defaults(arg.level), CsvColumns) THEN Abort(res, "MissingJoinColumn")
       ELSE Step([res EXCEPT !.cols = merge_columns(@ \cup {"_J"},
                                          CsvColumns \cup {"_J"}, {"_J"})])

\* join lines 321-325
JoinFinish ==
    /\ Running("join", "finish")
    /\ \E o \in {"done", "raised"} :
          LET r == simplify([res EXCEPT !.cols = with_rates(@)], arg.simplify, o) IN
          Step([r EXCEPT !.cols = drop_J(@)])

\* boundaries line 297, join line 326
Respond(h) == Running(h, "respond") /\ Step(Emit(res, "respond"))

NextRun ==
    \/ MainNormalizeState \/ MainResolve \/ MainFetch \/ MainMerge \/ MainOverlay
    \/ MainFinish \/ MainWrite
    \/ \E h \in {"boundaries", "join"} : NormStateStep(h) \/ LoadBoundary(h) \/ Respond(h)
    \/ JoinNormalizeAndMerge \/ JoinFinish

SpecRun == InitRun /\ [][NextRun]_vars

Done == res.todo = <<>> /\ res.err = ""

\* C21: for a ZCTA request, a failure of the spatial-containment step is never raised
\* to the caller, in the CLI and in the serving layer alike: no run ends with that
\* failure, and a run that swallowed it emits the unfiltered boundary table.
C21_SpatialFilterSwallowed ==
    arg.level = "zcta" =>
        /\ res.err # "SpatialFilterFailed"
        /\ ("overlay" \in res.swallowed /\ Done) => res.out.rows = ROWS
\* a /join for the ZCTAs of one state ends with the failure of the centroid test
C21_Witness ==
    /\ fn = "join" /\ arg.level = "zcta" /\ arg.state = "FL"
    /\ res.err = "SpatialFilterFailed" /\ res.todo = <<>> /\ ~res.emitted

\* C22: a failing simplification is not raised, and the run completes and emits every
\* row of its table with the geometry as loaded; with no tolerance, or tolerance 0, the
\* geometries are emitted as loaded too.
C22_SimplifyFailureSwallowed ==
    fn \in {"main", "join"} =>
        /\ "simplify" \in res.swallowed => res.err = ""
        /\ (Done /\ (arg.simplify \in {"None", "0.0"} \/ "simplify" \in res.swallowed)) =>
              /\ res.out.rows = res.rows
              /\ \A i \in res.out.rows : res.out.geom[i] = "poly"
\* a CLI run with a tolerance whose simplification raised has written its rows
C22_Witness ==
    /\ fn = "main" /\ arg.simplify = "0.0005" /\ Done
    /\ "simplify" \in res.swallowed
    /\ res.emitted /\ res.out.rows = ROWS
    /\ \A i \in ROWS : res.out.geom[i] = "poly"

\* C23: the final column drop removes exactly the working columns: a completed join
\* emits no key-normalization column (_J, _ZCTA5) and emits every column of the CSV,
\* whatever its name (under its own name, or suffixed by the merge).
C23_DropExactlyWorkingColumns ==
    (fn \in {"main", "join"} /\ Done) =>
        /\ res.out.cols \cap {"_J", "_ZCTA5"} = {}
        /\ \A c \in CsvColumns : c \in res.out.cols \/ (c \o "_y") \in res.out.cols
\* a CLI run whose CSV has a column _notes has written an output without it
C23_Witness ==
    /\ fn = "main" /\ Done /\ res.emitted
    /\ "_notes" \in arg.columns /\ "_J" \notin arg.columns
    /\ "_notes" \notin res.out.cols

\* C25: an unknown state token is rejected before any probe, download, cache write or
\* output; and a run that ended in a fatal error of the taxonomy has emitted nothing.
C25_FailFast ==
    /\ res.err = "UnknownState" => res.effects = <<>>
    /\ res.err \in FATAL =>
          /\ ~res.emitted /\ res.out = NoOutput
          /\ \A i \in DOMAIN res.effects : res.effects[i] \notin {"write", "respond"}
\* a CLI run was stopped by its state token, having done nothing
C25_Witness ==
    /\ fn = "main" /\ arg.state = "zz"
    /\ res.err = "UnknownState" /\ res.todo = <<>> /\ res.effects = <<>>

\* ------------------------------------------------------------- Geometry Loader
\* Which file of a dataset a loader opens. arg names the dataset and says whether
\* import pyarrow succeeded when local_api was loaded.
InitLoader ==
    /\ MAX_RETRIES = 1 /\ RETRY_WAIT = 1 /\ OFFLINE = FALSE /\ CACHE_DIR = TRUE
    /\ cache \in [URLS -> {NoFile, File(1), File(BodyLen)}]
    /\ cache0 = [p \in Procs |-> cache]
    /\ pc = [p \in Procs |-> "idle"]
    /\ op = [p \in Procs |-> ""]
    /\ url = [p \in Procs |-> 0]
    /\ cand = [p \in Procs |-> 0]
    /\ attempt = [p \in Procs |-> 0]
    /\ ev = [p \in Procs |-> <<>>]
    /\ tmp = [p \in Procs |-> NoFile]
    /\ ret = [p \in Procs |-> NoRet]
    /\ calls = [p \in Procs |-> 0]
    /\ parquet = [u \in URLS |-> FALSE]
    /\ fn = ""
    /\ arg \in [dataset : URLS, HAS_ARROW : BOOLEAN]
    /\ res = <<>>

\* the file opened, or the exception of the geometry library
Opened(path, ok) == [kind |-> IF ok THEN "read" ELSE "raise", path |-> path]

\* variant: the columnar file is taken whenever it exists
parquet_if_exists(has_arrow, exists_parquet) == IF exists_parquet THEN "parquet" ELSE "zip"
\* local_api.parquet_or_zip(path_parquet, path_zip), with _HAS_ARROW and
\* os.path.exists(path_parquet) as arguments
parquet_or_zip(has_arrow, exists_parquet) ==
    IF has_arrow /\ exists_parquet THEN "parquet" ELSE "zip"

\* load_boundary: p = parquet_or_zip(...); read_parquet(p) or read_file('zip://' + p)
LoadBoundaryFile ==
    /\ arg.dataset \in URLS
    /\ LET p == parquet_or_zip(arg.HAS_ARROW, parquet[arg.dataset]) IN
       Apply("load_boundary", Opened(p, p = "parquet" \/ Complete(cache[arg.dataset])))

\* alice_choropleth.read_geodata_from_zip: the archive that download_to_temp returns
ReadGeodataFromZip ==
    /\ Complete(cache[arg.dataset])
    /\ Apply("read_geodata_from_zip", Opened("zip", TRUE))

\* the converter runs before the loader
ToParquetFirst(u) == fn = "" /\ ToParquet(u)

NextLoader == LoadBoundaryFile \/ ReadGeodataFromZip \/ \E u \in URLS : ToParquetFirst(u)

SpecLoader == InitLoader /\ [][NextLoader]_vars

\* C24, as stated: every loader reads the columnar file of a dataset if that file
\* exists in the parquet subdirectory and the zip archive otherwise, whatever else holds.
C24_PathChoice ==
    fn # "" => (res.path = "parquet" <=> parquet[arg.dataset])

\* C24: the serving layer's loader reads the columnar file of a dataset exactly when
\* pyarrow could be imported and the file exists in the parquet subdirectory, and the
\* zip archive otherwise; the CLI's loader reads the zip archive always.
C24_PathChoiceArrow ==
    /\ fn = "load_boundary" =>
          (res.path = "parquet" <=> (arg.HAS_ARROW /\ parquet[arg.dataset]))
    /\ fn = "read_geodata_from_zip" => res.path = "zip"
\* without pyarrow the serving layer has read the zip although the columnar file exists
C24_Witness ==
    /\ fn = "load_boundary" /\ ~arg.HAS_ARROW /\ parquet[arg.dataset]
    /\ res = Opened("zip", TRUE)

\* C26: every operation that writes at a cache path, the prefetch download included,
\* keeps "a file at a cache path is a complete download": once no call is in progress,
\* every file of the cache directory has its whole body, so that no later call finds a
\* partial file there.
C26_CacheFilesComplete ==
    Idle(Main) => \A u \in URLS : cache[u].exists => Complete(cache[u])
\* a prefetch download found, and reported as cached, the partial file that an earlier
\* download left behind when its write failed
C26_Witness ==
    /\ op[Main] = "download" /\ pc[Main] = "done" /\ calls[Main] = 2
    /\ cache0[Main][url[Main]].exists /\ ~Complete(cache0[Main][url[Main]])
    /\ ev[Main] = <<>>
    /\ ret[Main] = RetPath(url[Main], "cache")

\* ------------------------------------------------------------- prefetch_tiger.main
\* One run of the prefetch tool. arg holds its flags, what the cache directory held
\* before, and the per-state URLs that are unavailable for good; res is the frame of
\* main: its position, the files now in the cache directory, and the URLs still to try
\* in the pass under way.
NumStates == 1     \* target states of a prefetch run
MaxRounds == 2     \* round_num is counted up to here

STUSPS == 1..NumStates
Url(st, kind) == [st |-> st, kind |-> kind]
PerState == {Url(st, k) : st \in STUSPS, k \in {"cousub", "tract"}}
BlockGroups == {Url(st, "bg") : st \in STUSPS}
\* the ZCTA archive of candidate v of zcta_urls() (st is the candidate's number here);
\* the last candidate is cb_2020
Zcta(v) == Url(v, "zcta")
ZCTA_2020 == Zcta(NumCands)

\* the states st..NumStates in order, as main iterates over stusps or bg_states
RECURSIVE Upto(_, _)
Upto(st, S) ==
    IF st > NumStates THEN <<>>
    ELSE (IF st \in S THEN <<st>> ELSE <<>>) \o Upto(st + 1, S)

\* variant: a block-group archive that is not cached is pending as well
RECURSIVE pending_urlsWithBg(_, _)
pending_urlsWithBg(files, st) ==
    IF st > NumStates THEN <<>>
    ELSE (IF ~arg.no_cousub /\ Url(st, "cousub") \notin files
          THEN <<Url(st, "cousub")>> ELSE <<>>)
         \o (IF ~arg.no_tracts /\ Url(st, "tract") \notin files
             THEN <<Url(st, "tract")>> ELSE <<>>)
         \o (IF st \in arg.bg_states /\ Url(st, "bg") \notin files
             THEN <<Url(st, "bg")>> ELSE <<>>)
         \o pending_urlsWithBg(files, st + 1)
\* main.pending_urls(), lines 110-123, from state st on: per state the county
\* subdivisions and then the tracts, unless skipped by a flag or present in the cache
RECURSIVE pending_urls(_, _)
pending_urls(files, st) ==
    IF st > NumStates THEN <<>>
    ELSE (IF ~arg.no_cousub /\ Url(st, "cousub") \notin files
          THEN <<Url(st, "cousub")>> ELSE <<>>)
         \o (IF ~arg.no_tracts /\ Url(st, "tract") \notin files
             THEN <<Url(st, "tract")>> ELSE <<>>)
         \o pending_urls(files, st + 1)

\* block-group URLs of --bg-states, lines 133-138
bg_urls == [i \in DOMAIN Upto(1, arg.bg_states) |-> Url(Upto(1, arg.bg_states)[i], "bg")]

\* at most one element of S
AtMostOne(S) == {{}} \cup {{x} : x \in S}

InitPrefetch ==
    /\ AcqIdle
    /\ fn = "prefetch"
    /\ arg \in [until_complete : BOOLEAN, no_cousub : BOOLEAN, no_tracts : BOOLEAN,
                bg_states : AtMostOne(STUSPS),
                cached : AtMostOne(PerState) \cup {{ZCTA_2020}},
                dead : AtMostOne(PerState \cup BlockGroups)]
    /\ res = [pc |-> "national", files |-> arg.cached, queue |-> <<>>, round_num |-> 1]

PfStep(r) == res' = r /\ UNCHANGED <<fn, arg, acqvars>>

\* download(url, dest, ...) of lines 20-45 as one step of main: a
\* cached file is left alone; otherwise the file is written whole ("ok"), or the GETs
\* fail and nothing is written ("fail"), or the write fails and leaves what it wrote
\* ("partial"). Both failures raise. A URL that is unavailable for good only fails.
DownloadOutcomes(u, files) ==
    IF u \in files THEN {"cached"}
    ELSE IF u \in arg.dead THEN {"fail"}
    ELSE {"ok", "fail", "partial"}
download(r, u, o) ==
    [r EXCEPT !.files = IF o \in {"ok", "partial"} THEN @ \cup {u} ELSE @]

\* lines 101-107: the national archives, the ZCTA archive being the first candidate
\* whose probe succeeds; an exception of any of these calls ends main
PrefetchNational ==
    /\ fn = "prefetch" /\ res.pc = "national"
    /\ \/ PfStep([res EXCEPT !.pc = "failed"])
       \/ \E v \in 1..NumCands :
             PfStep([res EXCEPT !.files = @ \cup {Zcta(v)},
                                !.pc = "initial",
                                !.queue = pending_urls(res.files, 1)])

\* lines 126-130 and 153-157: one download of the pass under way, its exception caught
PrefetchDownload ==
    /\ fn = "prefetch" /\ res.pc \in {"initial", "bg", "retry"} /\ res.queue # <<>>
    /\ \E o \in DownloadOutcomes(Head(res.queue), res.files) :
          PfStep([download(res, Head(res.queue), o) EXCEPT !.queue = Tail(@)])

\* lines 133-138: the initial pass is over, the block groups are next
PrefetchBlockGroups ==
    /\ fn = "prefetch" /\ res.pc = "initial" /\ res.queue = <<>>
    /\ PfStep([res EXCEPT !.pc = "bg", !.queue = bg_urls])

\* lines 145-147: the block groups are over
PrefetchUntilComplete ==
    /\ fn = "prefetch" /\ res.pc = "bg" /\ res.queue = <<>>
    /\ PfStep([res EXCEPT !.pc = IF arg.until_complete THEN "loop" ELSE "done"])

\* lines 148-152: while True: pend = pending_urls(); if not pend: break
PrefetchRound ==
    /\ fn = "prefetch" /\ res.pc = "loop"
    /\ LET pend == pending_urls(res.files, 1) IN
       PfStep(IF pend = <<>> THEN [res EXCEPT !.pc = "done"]
              ELSE [res EXCEPT !.pc = "retry", !.queue = pend])

\* lines 158-159: round_num += 1, time.sleep(retry_wait * 5)
PrefetchSleep ==
    /\ fn = "prefetch" /\ res.pc = "retry" /\ res.queue = <<>>
    /\ PfStep([res EXCEPT !.pc = "loop",
                          !.round_num = IF @ < MaxRounds THEN @ + 1 ELSE @])

NextPrefetch ==
    \/ PrefetchNational \/ PrefetchDownload \/ PrefetchBlockGroups
    \/ PrefetchUntilComplete \/ PrefetchRound \/ PrefetchSleep

SpecPrefetch == InitPrefetch /\ [][NextPrefetch]_vars
\* main is sequential code: it always takes its next step, sleeps included
SpecPrefetchFair == SpecPrefetch /\ WF_vars(NextPrefetch)

\* the per-state archives the flags ask for
Wanted == {u \in PerState : (u.kind = "cousub" /\ ~arg.no_cousub)
                              \/ (u.kind = "tract" /\ ~arg.no_tracts)}
Terminated == res.pc = "done"
\* the national downloads are behind, and a file is there for every wanted archive
AllCached == res.pc \notin {"national", "failed"} /\ Wanted \subseteq res.files

served_zcta == ZCTA_2020

\* C28: after a prefetch run that finished successfully, the ZCTA archive that the
\* serving layer and the parquet converter look up is in the cache directory, whichever
\* candidate the prefetch resolver selected.
C28_ZctaServedAfterPrefetch ==
    Terminated => served_zcta \in res.files
\* a finished run cached the first candidate only; cb_2020 is not in the cache
C28_Witness ==
    /\ Terminated /\ Zcta(1) \in res.files
    /\ served_zcta \notin res.files
    /\ arg.cached = {}

\* C29: online, resolve_first_available never consults the cache: it returns a
\* candidate only after a successful probe of that candidate, whatever archives the
\* cache directory holds; and when no probe succeeds it ends with NoSourceAvailable
\* after MAX_RETRIES probes of each candidate, a cached archive notwithstanding.
C29_OnlineIgnoresCache ==
    \A p \in Procs : (op[p] = "resolve_first_available" /\ ~OFFLINE) =>
        /\ ret[p].kind = "url" =>
              /\ ev[p] # <<>>
              /\ LET last == ev[p][Len(ev[p])] IN
                    last.k = "HEAD" /\ last.ok /\ last.u = ret[p].u
        /\ (pc[p] = "done" /\ \A i \in Heads(p) : ~ev[p][i].ok) =>
              /\ ret[p] = Raise("NoSourceAvailable")
              /\ \A c \in 1..NumCands :
                    Cardinality(FailedHeads(p, zcta_urls[c])) = Max0(MAX_RETRIES)
\* the cache directory holds a complete archive of the first candidate, and the resolver
\* has raised NoSourceAvailable after probing every candidate MAX_RETRIES times
C29_Witness ==
    \E p \in Procs :
        /\ op[p] = "resolve_first_available" /\ ~OFFLINE /\ CACHE_DIR
        /\ Complete(cache0[p][zcta_urls[1]]) /\ Complete(cache[zcta_urls[1]])
        /\ MAX_RETRIES >= 2
        /\ ret[p] = Raise("NoSourceAvailable")
        /\ Cardinality(Heads(p)) = MAX_RETRIES * NumCands

\* ------------------------------------------------------------- Join Engine: keys and merge
\* The ZCTA join from the raw identifier column on: arg holds a boundary table and the
\* identifier column of a CSV, its dtype and the text of each cell; the keys are derived
\* and the tables merged.
RawKeyTexts == {"1", "01", "1-", "2", "F"}

\* read_csv gives a column of numerals the dtype int64, any other the dtype object
InitKeyedMerge ==
    /\ AcqIdle
    /\ fn = ""
    /\ arg \in [gdf : GeoTables, dtype : {"int64", "object"},
                texts : Tables(RawKeyTexts, MaxCsv)]
    /\ arg.dtype = "int64" <=> \A j \in DOMAIN arg.texts : AllDigits(arg.texts[j])
    /\ res = <<>>

\* the CSV with its derived key column: _J of the serving layer (join line 315), _ZCTA5
\* of the CLI (prepare_zcta line 239); the attribute of a row is its raw text
keyed(f) ==
    [j \in DOMAIN arg.texts |->
        [key |-> IF f = "join" THEN csv_J("zcta", Cell(arg.dtype, arg.texts[j]))
                 ELSE zcta_ZCTA5(Cell(arg.dtype, arg.texts[j])),
         attr |-> arg.texts[j]]]

\* join lines 309-320
JoinKeyedMerge ==
    Apply("join", Restrict(merge_left(arg.gdf, keyed("join"), 1), InState(arg.gdf)))
\* prepare_zcta lines 239-256
PrepareZctaKeyedMerge ==
    \E overlay \in {"done", "raised"} :
        Apply("prepare_zcta",
              IF overlay = "done"
              THEN Restrict(merge_left(arg.gdf, keyed("prepare_zcta"), 1), InState(arg.gdf))
              ELSE merge_left(arg.gdf, keyed("prepare_zcta"), 1))

NextKeyedMerge == JoinKeyedMerge \/ PrepareZctaKeyedMerge

SpecKeyedMerge == InitKeyedMerge /\ [][NextKeyedMerge]_vars

\* the output rows of boundary row i, and the CSV rows whose derived key is its key
RowsOf(i) == {n \in DOMAIN res : res[n].gid = i}
SameKey(i) == {j \in DOMAIN arg.texts : keyed(fn)[j].key = arg.gdf[i].key}

\* C30: the result of the join has one row per boundary row exactly when no two CSV
\* rows have the derived key of one boundary row; a boundary row whose key is the
\* derived key of k > 1 CSV rows is in the result k times, also when the raw values of
\* those rows differ.
C30_Cardinality ==
    fn # "" =>
        LET G == {res[n].gid : n \in DOMAIN res} IN
        /\ InState(arg.gdf) \subseteq G
        /\ \A i \in G : Cardinality(RowsOf(i)) =
                            IF Cardinality(SameKey(i)) > 1 THEN Cardinality(SameKey(i)) ELSE 1
        /\ Len(res) = Cardinality(G) <=> \A i \in G : Cardinality(SameKey(i)) <= 1
\* the raw values 1 and 1- both give the key 00001: its boundary row is there twice
C30_Witness ==
    /\ fn = "join" /\ arg.dtype = "object" /\ arg.texts = <<"1", "1-">>
    /\ \E i \in InState(arg.gdf) :
          /\ arg.gdf[i].key = "00001"
          /\ Cardinality(RowsOf(i)) = 2
          /\ \A n \in RowsOf(i) : res[n].attr \in {"1", "1-"}
    /\ Len(res) = Cardinality(InState(arg.gdf)) + 1

====
